---- MODULE Spec2Model ----
(***************************************************************************)
(* A model of wdpa/qa.py: the quality-assurance checks that are run on the *)
(* attribute table of the World Database on Protected Areas.               *)
(*                                                                         *)
(* The table is a pandas DataFrame (wdpa_df).  Every check is a function   *)
(* of the DataFrame that builds a boolean row mask, selects the rows of    *)
(* the mask and returns either the WDPA_PID values of the selected rows    *)
(* (return_pid=True) or whether there is any (return_pid=False).           *)
(*                                                                         *)
(* Cell values are tagged records: Null stands for None / NaN, Str(s) for  *)
(* a Python string and numbers are exact fractions n/d (d > 0); +inf and   *)
(* -inf are the results of a float division of a non-zero number by zero.  *)
(* Floating-point arithmetic is modelled by exact rational arithmetic.     *)
(***************************************************************************)
EXTENDS Integers, Sequences, FiniteSets, TLC

VARIABLES wdpa_df, call, selected, ret

vars == <<wdpa_df, call, selected, ret>>

(***************************************************************************)
(* Cell values                                                             *)
(***************************************************************************)
Null == [t |-> "null"]

Str(s) == [t |-> "str", s |-> s]

Frac(n, d) == [t |-> "num", n |-> n, d |-> d]

Num(n) == Frac(n, 1)

Inf(sign) == [t |-> "inf", sign |-> sign]

IsNull(v) == v.t = "null"

IsStr(v) == v.t = "str"

IsNum(v) == v.t = "num"

IsInf(v) == v.t = "inf"

AbsInt(n) == IF n < 0 THEN -n ELSE n

SignInt(n) == IF n > 0 THEN 1 ELSE IF n < 0 THEN -1 ELSE 0

RECURSIVE GCD(_, _)
GCD(a, b) == IF b = 0 THEN a ELSE GCD(b, a % b)

LCM(a, b) == (a \div GCD(a, b)) * b

\* a fraction in lowest terms with a positive denominator
Reduce(n, d) ==
    LET g == GCD(AbsInt(n), AbsInt(d))
        s == IF d < 0 THEN -1 ELSE 1
    IN  Frac(s * (n \div g), s * (d \div g))

\* float addition: NaN when an operand is NaN
Add(x, y) ==
    IF ~IsNum(x) \/ ~IsNum(y) THEN Null
    ELSE Reduce(x.n * y.d + y.n * x.d, x.d * y.d)

Sub(x, y) ==
    IF ~IsNum(x) \/ ~IsNum(y) THEN Null
    ELSE Reduce(x.n * y.d - y.n * x.d, x.d * y.d)

Mul(x, y) ==
    IF ~IsNum(x) \/ ~IsNum(y) THEN Null
    ELSE Reduce(x.n * y.n, x.d * y.d)

\* float division as numpy does it: x/0 is +inf or -inf, 0/0 is NaN
Div(x, y) ==
    IF ~IsNum(x) \/ ~IsNum(y) THEN Null
    ELSE IF y.n = 0
         THEN IF x.n = 0 THEN Null ELSE Inf(SignInt(x.n))
         ELSE Reduce(x.n * y.d, x.d * y.n)

Abs(x) == IF IsNum(x) THEN Frac(AbsInt(x.n), x.d) ELSE x

\* -1, 0, 1 for two non-null numbers (infinities included)
Cmp(x, y) ==
    IF IsInf(x)
    THEN IF IsInf(y) /\ y.sign = x.sign THEN 0 ELSE x.sign
    ELSE IF IsInf(y) THEN -(y.sign)
    ELSE SignInt(x.n * y.d - y.n * x.d)

IsNumeric(v) == IsNum(v) \/ IsInf(v)

\* comparisons of floats: every comparison with NaN is False
GT(x, y) == IsNumeric(x) /\ IsNumeric(y) /\ Cmp(x, y) = 1

LT(x, y) == IsNumeric(x) /\ IsNumeric(y) /\ Cmp(x, y) = -1

GE(x, y) == IsNumeric(x) /\ IsNumeric(y) /\ Cmp(x, y) >= 0

LE(x, y) == IsNumeric(x) /\ IsNumeric(y) /\ Cmp(x, y) <= 0

(***************************************************************************)
(* The DataFrame: a sequence of rows, each row a function from the column  *)
(* names to cell values.  The row labels (the OBJECTID index) are 1..Len.  *)
(***************************************************************************)
INPUT_FIELDS_POLY ==
    <<"WDPAID", "WDPA_PID", "PA_DEF", "NAME", "ORIG_NAME", "DESIG",
      "DESIG_ENG", "DESIG_TYPE", "IUCN_CAT", "INT_CRIT", "MARINE", "REP_M_AREA",
      "GIS_M_AREA", "REP_AREA", "GIS_AREA", "NO_TAKE", "NO_TK_AREA", "STATUS", "STATUS_YR",
      "GOV_TYPE", "OWN_TYPE", "MANG_AUTH", "MANG_PLAN", "VERIF", "METADATAID", "SUB_LOC",
      "PARENT_ISO3", "ISO3">>

INPUT_FIELDS_PT ==
    <<"WDPAID", "WDPA_PID", "PA_DEF", "NAME", "ORIG_NAME", "DESIG",
      "DESIG_ENG", "DESIG_TYPE", "IUCN_CAT", "INT_CRIT", "MARINE", "REP_M_AREA",
      "REP_AREA", "NO_TAKE", "NO_TK_AREA", "STATUS", "STATUS_YR", "GOV_TYPE",
      "OWN_TYPE", "MANG_AUTH", "MANG_PLAN", "VERIF", "METADATAID", "SUB_LOC",
      "PARENT_ISO3", "ISO3">>

Range(seq) == {seq[i] : i \in DOMAIN seq}

Index(df) == DOMAIN df

Columns(df) == DOMAIN df[1]

\* the smallest element of a non-empty set of row labels
MinOf(S) == CHOOSE i \in S : \A j \in S : i <= j

\* wdpa_df[mask][field].values: the cells of the selected rows, in row order
RECURSIVE Values(_, _, _)
Values(df, mask, field) ==
    IF mask = {} THEN <<>>
    ELSE LET i == MinOf(mask)
         IN  <<df[i][field]>> \o Values(df, mask \ {i}, field)

\* Series.isin(values)
isin(v, values) == v \in values

\* Series.duplicated(): every occurrence of a value but the first one (NaN
\* counts as a value equal to itself)
duplicated(df, field) ==
    {i \in Index(df) : \E j \in Index(df) : j < i /\ df[j][field] = df[i][field]}

\* unique() that keeps every occurrence
unique_keep_all(seq) == seq

\* Series.unique(): the distinct values in order of first appearance
RECURSIVE unique(_)
unique(seq) ==
    IF seq = <<>> THEN <<>>
    ELSE LET front == unique(SubSeq(seq, 1, Len(seq) - 1))
             x == seq[Len(seq)]
         IN  IF x \in Range(front) THEN front ELSE Append(front, x)

\* the number of distinct values, a missing value counted as one of them
nunique_with_nan(df, rows, field) ==
    Cardinality({df[i][field] : i \in rows})

\* Series.nunique(): the number of distinct values, NaN not counted
nunique(df, rows, field) ==
    Cardinality({df[i][field] : i \in rows} \ {Null})

(***************************************************************************)
(* Return values: an array of WDPA_PIDs, a boolean, or a raised exception. *)
(***************************************************************************)
Pids(seq) == [t |-> "pids", v |-> seq]

Bool(b) == [t |-> "bool", b |-> b]

Raised(msg) == [t |-> "raise", msg |-> msg]

\* the common tail of the checks: invalid_wdpa_pid = wdpa_df[mask]['WDPA_PID'].values,
\* returned as it is or as len(invalid_wdpa_pid) > 0
Outcome(df, mask, return_pid) ==
    LET invalid_wdpa_pid == Values(df, mask, "WDPA_PID")
    IN  [df |-> df,
         selected |-> mask,
         ret |-> IF return_pid THEN Pids(invalid_wdpa_pid)
                 ELSE Bool(Len(invalid_wdpa_pid) > 0)]

(***************************************************************************)
(* 2.1 duplicate WDPA_PIDs                                                 *)
(***************************************************************************)
duplicate_wdpa_pid(df, return_pid) ==
    IF return_pid
    THEN [df |-> df,
          selected |-> duplicated(df, "WDPA_PID"),
          ret |-> Pids(unique(Values(df, duplicated(df, "WDPA_PID"), "WDPA_PID")))]
    ELSE [df |-> df,
          selected |-> {},
          ret |-> Bool(nunique(df, Index(df), "WDPA_PID") # Len(df))]

(***************************************************************************)
(* Exact arithmetic for mean + 2*std.  The squares of the comparison do    *)
(* not fit the integers of the model checker, so they are computed on      *)
(* natural numbers written as sequences of base-10000 digits, lowest       *)
(* digit first.                                                            *)
(***************************************************************************)
Base == 10000

RECURSIVE Big(_)
Big(n) == IF n = 0 THEN <<>> ELSE <<n % Base>> \o Big(n \div Base)

RECURSIVE BigAddCarry(_, _, _)
BigAddCarry(x, y, c) ==
    IF x = <<>> /\ y = <<>> THEN Big(c)
    ELSE LET dx == IF x = <<>> THEN 0 ELSE Head(x)
             dy == IF y = <<>> THEN 0 ELSE Head(y)
             tx == IF x = <<>> THEN <<>> ELSE Tail(x)
             ty == IF y = <<>> THEN <<>> ELSE Tail(y)
         IN  <<(dx + dy + c) % Base>> \o BigAddCarry(tx, ty, (dx + dy + c) \div Base)

BigAdd(x, y) == BigAddCarry(x, y, 0)

\* x times a natural number m < 200000
RECURSIVE BigMulSmallCarry(_, _, _)
BigMulSmallCarry(x, m, c) ==
    IF x = <<>> THEN Big(c)
    ELSE <<(Head(x) * m + c) % Base>> \o BigMulSmallCarry(Tail(x), m, (Head(x) * m + c) \div Base)

BigMulSmall(x, m) == BigMulSmallCarry(x, m, 0)

RECURSIVE BigMul(_, _)
BigMul(x, y) ==
    IF y = <<>> THEN <<>>
    ELSE BigAdd(BigMulSmall(x, Head(y)), <<0>> \o BigMul(x, Tail(y)))

\* without the zero digits at the high end
RECURSIVE BigTrim(_)
BigTrim(x) ==
    IF x # <<>> /\ x[Len(x)] = 0 THEN BigTrim(SubSeq(x, 1, Len(x) - 1)) ELSE x

RECURSIVE BigGTTrimmed(_, _)
BigGTTrimmed(x, y) ==
    IF Len(x) # Len(y) THEN Len(x) > Len(y)
    ELSE IF x = <<>> THEN FALSE
    ELSE IF x[Len(x)] # y[Len(y)] THEN x[Len(x)] > y[Len(y)]
    ELSE BigGTTrimmed(SubSeq(x, 1, Len(x) - 1), SubSeq(y, 1, Len(y) - 1))

BigGT(x, y) == BigGTTrimmed(BigTrim(x), BigTrim(y))

BigSquare(n) == BigMul(Big(AbsInt(n)), Big(AbsInt(n)))

(***************************************************************************)
(* 2.3 - 2.6 one area much larger than the other                           *)
(***************************************************************************)
MAX_ALLOWED_SIZE_DIFF_KM2 == 50

\* only the ratios above 100 are taken out
without_outlier_high_only(calc) == IF GT(calc, Num(100)) THEN Null ELSE calc

\* the outliers are clipped to the limits 100 and 0 and stay in the statistics
without_outlier_clipped(calc) ==
    IF GT(calc, Num(100)) THEN Num(100)
    ELSE IF LT(calc, Num(0)) THEN Num(0)
    ELSE calc

\* np.select([calc > 100, calc < 0], [nan, nan], default = calc) for one row
without_outlier(calc) ==
    IF GT(calc, Num(100)) THEN Null
    ELSE IF LT(calc, Num(0)) THEN Null
    ELSE calc

\* (the two operators below halve their argument rather than peel one
\* element off it, which keeps the evaluation shallow on long columns)
RECURSIVE DenominatorLCM(_)
DenominatorLCM(sample) ==
    IF sample = <<>> THEN 1
    ELSE IF Len(sample) = 1 THEN sample[1].d
    ELSE LCM(DenominatorLCM(SubSeq(sample, 1, Len(sample) \div 2)),
             DenominatorLCM(SubSeq(sample, Len(sample) \div 2 + 1, Len(sample))))

RECURSIVE SumSeq(_)
SumSeq(ints) ==
    IF ints = <<>> THEN 0
    ELSE IF Len(ints) = 1 THEN ints[1]
    ELSE SumSeq(SubSeq(ints, 1, Len(ints) \div 2))
         + SumSeq(SubSeq(ints, Len(ints) \div 2 + 1, Len(ints)))

\* the sum of the squares: the digits of the squares are added place by
\* place and the carries are taken once, at the end
BigSumSquares(ints) ==
    LET squares == [k \in 1..Len(ints) |-> BigSquare(ints[k])]
        places == IF ints = <<>> THEN 0
                  ELSE CHOOSE w \in {Len(squares[k]) : k \in 1..Len(ints)} :
                          \A k \in 1..Len(ints) : Len(squares[k]) <= w
        digit(k, j) == IF j <= Len(squares[k]) THEN squares[k][j] ELSE 0
    IN  BigMulSmall([j \in 1..places |-> SumSeq([k \in 1..Len(ints) |-> digit(k, j)])], 1)

\* mean + 2*std taken as 0 when fewer than two values are left
mean_plus_2std_zero_for_nan(stats) ==
    LET sample == SelectSeq(stats, LAMBDA v : ~IsNull(v))
        n == Len(sample)
        D == DenominatorLCM(sample)
        R == [k \in 1..n |-> sample[k].n * (D \div sample[k].d)]
        S == SumSeq(R)
    IN  IF n < 2
        THEN [t |-> "mean2std", n |-> 2, D |-> 1, S |-> 0, Q |-> BigSumSquares(<<0, 0>>)]
        ELSE [t |-> "mean2std", n |-> n, D |-> D, S |-> S,
              Q |-> BigSumSquares([k \in 1..n |-> n * R[k] - S])]

\* Series.mean() + 2 * Series.std(); both skip NaN and std() is the sample
\* standard deviation (ddof = 1), which is NaN for fewer than two values.
\* With the n values written R[k]/D and S their sum of numerators,
\*    mean = S / (n*D)     std = sqrt(Q / (n-1)) / (n*D),   Q = sum (n*R[k] - S)^2
\* and the result is kept as the record of n, D, S and Q.
mean_plus_2std(stats) ==
    LET sample == SelectSeq(stats, LAMBDA v : ~IsNull(v))
        n == Len(sample)
        D == DenominatorLCM(sample)
        R == [k \in 1..n |-> sample[k].n * (D \div sample[k].d)]
        S == SumSeq(R)
    IN  IF n < 2 THEN Null
        ELSE [t |-> "mean2std", n |-> n, D |-> D, S |-> S,
              Q |-> BigSumSquares([k \in 1..n |-> n * R[k] - S])]

\* x > mean + 2*std, False when either side is NaN:
\*    x - mean = a / (n*D*x.d)  with  a = n*D*x.n - S*x.d,  so
\*    x > mean + 2*std  iff  a > 0 and (n-1) * a^2 > 4 * Q * x.d^2
greater_than_max(x, max) ==
    IF IsNull(max) \/ ~IsNumeric(x) THEN FALSE
    ELSE IF IsInf(x) THEN x.sign = 1
    ELSE LET a == max.n * max.D * x.n - max.S * x.d
         IN  /\ a > 0
             /\ BigGT(BigMulSmall(BigSquare(a), max.n - 1),
                      BigMulSmall(BigMul(max.Q, BigSquare(x.d)), 4))

\* the mask taken as ~(relative_size <= max), without the absolute difference
area_invalid_too_large_not_le(df, c1, c2, c3, r1, r2, r3, d1, d2, return_pid) ==
    LET calc == [i \in Index(df) |-> Div(Add(df[i][c1], df[i][c2]), df[i][c3])]
        relative_size_stats == [i \in Index(df) |-> without_outlier(calc[i])]
        max == mean_plus_2std(relative_size_stats)
        relative_size == [i \in Index(df) |-> Div(Add(df[i][r1], df[i][r2]), df[i][r3])]
    IN  Outcome(df, {i \in Index(df) :
                       ~IsNumeric(relative_size[i]) \/ greater_than_max(relative_size[i], max)},
                return_pid)

\* the body the four checks share, with the field read at each place of the
\* source: calc = (c1 + c2) / c3, relative_size = (r1 + r2) / r3 and
\* abs(d1 - d2) > MAX_ALLOWED_SIZE_DIFF_KM2
area_invalid_too_large(df, c1, c2, c3, r1, r2, r3, d1, d2, return_pid) ==
    LET calc == [i \in Index(df) |-> Div(Add(df[i][c1], df[i][c2]), df[i][c3])]
        relative_size_stats == [i \in Index(df) |-> without_outlier(calc[i])]
        max == mean_plus_2std(relative_size_stats)
        relative_size == [i \in Index(df) |-> Div(Add(df[i][r1], df[i][r2]), df[i][r3])]
    IN  Outcome(df, {i \in Index(df) :
                       /\ greater_than_max(relative_size[i], max)
                       /\ GT(Abs(Sub(df[i][d1], df[i][d2])), Num(MAX_ALLOWED_SIZE_DIFF_KM2))},
                return_pid)

area_invalid_too_large_gis(df, return_pid) ==
    area_invalid_too_large(df, "REP_AREA", "GIS_AREA", "REP_AREA",
                               "REP_AREA", "GIS_AREA", "REP_AREA",
                               "GIS_AREA", "REP_AREA", return_pid)

\* area_invalid_too_large_rep with the denominator of area_invalid_too_large_gis
area_invalid_too_large_rep_as_gis(df, return_pid) == area_invalid_too_large_gis(df, return_pid)

area_invalid_too_large_rep(df, return_pid) ==
    area_invalid_too_large(df, "REP_AREA", "GIS_AREA", "GIS_AREA",
                               "REP_AREA", "GIS_AREA", "GIS_AREA",
                               "REP_AREA", "GIS_AREA", return_pid)

\* area_invalid_too_large_gis_m reading the pair REP_AREA, GIS_AREA
area_invalid_too_large_gis_m_as_gis(df, return_pid) == area_invalid_too_large_gis(df, return_pid)

area_invalid_too_large_gis_m(df, return_pid) ==
    area_invalid_too_large(df, "REP_M_AREA", "GIS_M_AREA", "REP_M_AREA",
                               "REP_M_AREA", "GIS_M_AREA", "REP_M_AREA",
                               "GIS_M_AREA", "REP_M_AREA", return_pid)

area_invalid_too_large_rep_m(df, return_pid) ==
    area_invalid_too_large(df, "REP_M_AREA", "GIS_M_AREA", "GIS_M_AREA",
                               "REP_M_AREA", "GIS_M_AREA", "GIS_M_AREA",
                               "REP_M_AREA", "GIS_M_AREA", return_pid)

(***************************************************************************)
(* 4. invalid values in fields (factory functions)                         *)
(***************************************************************************)
\* invalid_value_in_field that never looks at the condition
invalid_value_in_field_no_condition(df, field, field_allowed_values, condition_field, condition_crit, return_pid) ==
    Outcome(df, {i \in Index(df) : ~isin(df[i][field], field_allowed_values)}, return_pid)

\* invalid_value_in_field that selects the members of the allowed list
invalid_value_in_field_not_negated(df, field, field_allowed_values, condition_field, condition_crit, return_pid) ==
    IF condition_field # "" /\ condition_crit # {}
    THEN Outcome(df, {i \in Index(df) :
                        /\ isin(df[i][field], field_allowed_values)
                        /\ isin(df[i][condition_field], condition_crit)}, return_pid)
    ELSE Outcome(df, {i \in Index(df) : isin(df[i][field], field_allowed_values)}, return_pid)

\* invalid_value_in_field that applies the condition whenever a condition
\* field is named
invalid_value_in_field_field_only(df, field, field_allowed_values, condition_field, condition_crit, return_pid) ==
    IF condition_field # ""
    THEN Outcome(df, {i \in Index(df) :
                        /\ ~isin(df[i][field], field_allowed_values)
                        /\ isin(df[i][condition_field], condition_crit)}, return_pid)
    ELSE Outcome(df, {i \in Index(df) : ~isin(df[i][field], field_allowed_values)}, return_pid)

invalid_value_in_field(df, field, field_allowed_values, condition_field, condition_crit, return_pid) ==
    IF condition_field # "" /\ condition_crit # {}
    THEN Outcome(df, {i \in Index(df) :
                        /\ ~isin(df[i][field], field_allowed_values)
                        /\ isin(df[i][condition_field], condition_crit)}, return_pid)
    ELSE Outcome(df, {i \in Index(df) : ~isin(df[i][field], field_allowed_values)}, return_pid)

\* invalid_value_in_field_isnot with the condition of invalid_value_in_field
invalid_value_in_field_isnot_as_is(df, field, field_allowed_values, condition_field, condition_crit, return_pid) ==
    IF condition_field # "" /\ condition_crit # {}
    THEN Outcome(df, {i \in Index(df) :
                        /\ ~isin(df[i][field], field_allowed_values)
                        /\ isin(df[i][condition_field], condition_crit)}, return_pid)
    ELSE Outcome(df, {i \in Index(df) : ~isin(df[i][field], field_allowed_values)}, return_pid)

\* invalid_value_in_field_isnot that never looks at the condition
invalid_value_in_field_isnot_no_condition(df, field, field_allowed_values, condition_field, condition_crit, return_pid) ==
    Outcome(df, {i \in Index(df) : ~isin(df[i][field], field_allowed_values)}, return_pid)

invalid_value_in_field_isnot(df, field, field_allowed_values, condition_field, condition_crit, return_pid) ==
    IF condition_field # "" /\ condition_crit # {}
    THEN Outcome(df, {i \in Index(df) :
                        /\ ~isin(df[i][field], field_allowed_values)
                        /\ ~isin(df[i][condition_field], condition_crit)}, return_pid)
    ELSE Outcome(df, {i \in Index(df) : ~isin(df[i][field], field_allowed_values)}, return_pid)

(***************************************************************************)
(* 5. area invalid size (factory function)                                 *)
(***************************************************************************)
\* no tolerance at all
size_threshold_none == Frac(1, 1)

size_threshold == Frac(10001, 10000)

area_invalid_size(df, field_small_area, field_large_area, return_pid) ==
    IF field_small_area # "" /\ field_large_area # ""
    THEN Outcome(df, {i \in Index(df) :
                        GT(df[i][field_small_area],
                           Mul(size_threshold, df[i][field_large_area]))}, return_pid)
    ELSE [df |-> df, selected |-> {},
          ret |-> Raised("ERROR: field(s) to test is (are) not specified")]

(***************************************************************************)
(* 1.1 the allowed ISO3 values.  The list is downloaded when the module is *)
(* loaded; a few of its codes stand for it here, with 'ABNJ' appended.     *)
(***************************************************************************)
iso3 == {"USA", "FRA", "ESP", "ABNJ"}

(***************************************************************************)
(* 2.2 MARINE designation based on GIS_AREA and GIS_M_AREA                 *)
(***************************************************************************)
coast_min == Frac(1, 10)

coast_max == Frac(9, 10)

\* wdpa_df['marine_GIS_proportion'] = wdpa_df['GIS_M_AREA'] / wdpa_df['GIS_AREA']:
\* the column is set on the table the caller passed
set_marine_GIS_proportion(df) ==
    [i \in Index(df) |->
        [f \in DOMAIN df[i] \cup {"marine_GIS_proportion"} |->
            IF f = "marine_GIS_proportion"
            THEN Div(df[i]["GIS_M_AREA"], df[i]["GIS_AREA"])
            ELSE df[i][f]]]

\* band 0 only below coast_min
assign_marine_gis_value_strict(row) ==
    IF LT(row["marine_GIS_proportion"], coast_min) THEN Str("0")
    ELSE IF LT(coast_min, row["marine_GIS_proportion"])
            /\ LT(row["marine_GIS_proportion"], coast_max) THEN Str("1")
    ELSE IF GE(row["marine_GIS_proportion"], coast_max) THEN Str("2")
    ELSE Null

\* band 0 when the proportion is NaN
assign_marine_gis_value_nan_as_0(row) ==
    IF LE(row["marine_GIS_proportion"], coast_min) THEN Str("0")
    ELSE IF LT(coast_min, row["marine_GIS_proportion"])
            /\ LT(row["marine_GIS_proportion"], coast_max) THEN Str("1")
    ELSE IF GE(row["marine_GIS_proportion"], coast_max) THEN Str("2")
    ELSE Str("0")

\* falls off the end (None) when the proportion is NaN
assign_marine_gis_value(row) ==
    IF LE(row["marine_GIS_proportion"], coast_min) THEN Str("0")
    ELSE IF LT(coast_min, row["marine_GIS_proportion"])
            /\ LT(row["marine_GIS_proportion"], coast_max) THEN Str("1")
    ELSE IF GE(row["marine_GIS_proportion"], coast_max) THEN Str("2")
    ELSE Null

\* wdpa_df['marine_GIS_value'] = wdpa_df.apply(assign_marine_gis_value, axis=1)
set_marine_GIS_value(df) ==
    [i \in Index(df) |->
        [f \in DOMAIN df[i] \cup {"marine_GIS_value"} |->
            IF f = "marine_GIS_value" THEN assign_marine_gis_value(df[i]) ELSE df[i][f]]]

\* != that is False wherever a cell is missing
ne_both_present(x, y) == ~IsNull(x) /\ ~IsNull(y) /\ x # y

\* != of two columns: True wherever either cell is missing
ne(x, y) == IsNull(x) \/ IsNull(y) \/ x # y

area_invalid_marine(df, return_pid) ==
    LET written == set_marine_GIS_value(set_marine_GIS_proportion(df))
    IN  Outcome(written,
                {i \in Index(written) : ne(written[i]["marine_GIS_value"], written[i]["MARINE"])},
                return_pid)

(***************************************************************************)
(* 2.7 - 2.10 areas that are too small                                     *)
(***************************************************************************)
\* size_threshold = 0.0001 of area_invalid_gis_area and area_invalid_rep_area
size_threshold_100m2 == Frac(1, 10000)

area_invalid_gis_area(df, return_pid) ==
    Outcome(df, {i \in Index(df) : LE(df[i]["GIS_AREA"], size_threshold_100m2)}, return_pid)

area_invalid_rep_area(df, return_pid) ==
    Outcome(df, {i \in Index(df) : LE(df[i]["REP_AREA"], size_threshold_100m2)}, return_pid)

area_invalid_rep_m_area_marine12(df, return_pid) ==
    Outcome(df, {i \in Index(df) :
                    /\ LE(df[i]["REP_M_AREA"], Num(0))
                    /\ isin(df[i]["MARINE"], {Str("1"), Str("2")})}, return_pid)

area_invalid_gis_m_area_marine12(df, return_pid) ==
    Outcome(df, {i \in Index(df) :
                    /\ LE(df[i]["GIS_M_AREA"], Num(0))
                    /\ isin(df[i]["MARINE"], {Str("1"), Str("2")})}, return_pid)

(***************************************************************************)
(* 2.11 - 2.13 hard-coded combinations of fields                           *)
(***************************************************************************)
invalid_no_take_no_tk_area_rep_m_area(df, return_pid) ==
    LET no_take_all == {i \in Index(df) : df[i]["NO_TAKE"] = Str("All")}
    IN  Outcome(df, {i \in no_take_all : ne(df[i]["REP_M_AREA"], df[i]["NO_TK_AREA"])}, return_pid)

invalid_int_crit_desig_eng_other(df, return_pid) ==
    Outcome(df, {i \in Index(df) :
                    /\ ~isin(df[i]["DESIG_ENG"],
                             {Str("Ramsar Site, Wetland of International Importance"),
                              Str("World Heritage Site (natural or mixed)")})
                    /\ ~isin(df[i]["INT_CRIT"], {Str("Not Applicable")})}, return_pid)

invalid_desig_eng_iucn_cat_other(df, return_pid) ==
    Outcome(df, {i \in Index(df) :
                    /\ ~isin(df[i]["IUCN_CAT"],
                             {Str("Ia"), Str("Ib"), Str("II"), Str("III"), Str("IV"), Str("V"),
                              Str("VI"), Str("Not Reported"), Str("Not Assigned")})
                    /\ ~isin(df[i]["DESIG_ENG"],
                             {Str("UNESCO-MAB Biosphere Reserve"),
                              Str("World Heritage Site (natural or mixed)")})}, return_pid)

(***************************************************************************)
(* 3. inconsistent fields for the same WDPAID                              *)
(***************************************************************************)
\* the keys of groupby('WDPAID'): rows with a missing WDPAID are in no group
groupby(df, key) == {df[i][key] : i \in Index(df)} \ {Null}

\* the groups whose field holds more than one distinct value
wdpaid_groups_gt1(df, check_field) ==
    {k \in groupby(df, "WDPAID") :
        nunique(df, {i \in Index(df) : df[i]["WDPAID"] = k}, check_field) > 1}

inconsistent_fields_same_wdpaid(df, check_field, return_pid) ==
    IF return_pid
    THEN Outcome(df, {i \in Index(df) :
                        isin(df[i]["WDPAID"], wdpaid_groups_gt1(df, check_field))}, TRUE)
    ELSE [df |-> df,
          selected |-> {},
          ret |-> Bool(Cardinality(wdpaid_groups_gt1(df, check_field)) > 0)]

\* 3.1 - 3.18 the input functions: the check_field each of them gives
inconsistent_input_functions ==
    [inconsistent_name_same_wdpaid |-> "NAME",
     inconsistent_orig_name_same_wdpaid |-> "ORIG_NAME",
     inconsistent_desig_same_wdpaid |-> "DESIG",
     inconsistent_desig_eng_same_wdpaid |-> "DESIG_ENG",
     inconsistent_desig_type_same_wdpaid |-> "DESIG_TYPE",
     inconsistent_int_crit_same_wdpaid |-> "INT_CRIT",
     inconsistent_no_take_same_wdpaid |-> "NO_TAKE",
     inconsistent_status_same_wdpaid |-> "STATUS",
     inconsistent_status_yr_same_wdpaid |-> "STATUS_YR",
     inconsistent_gov_type_same_wdpaid |-> "GOV_TYPE",
     inconsistent_own_type_same_wdpaid |-> "OWN_TYPE",
     inconsistent_mang_auth_same_wdpaid |-> "MANG_AUTH",
     inconsistent_mang_plan_same_wdpaid |-> "MANG_PLAN",
     inconsistent_verif_same_wdpaid |-> "VERIF",
     inconsistent_metadataid_same_wdpaid |-> "METADATAID",
     inconsistent_sub_loc_same_wdpaid |-> "SUB_LOC",
     inconsistent_parent_iso3_same_wdpaid |-> "PARENT_ISO3",
     inconsistent_iso3_same_wdpaid |-> "ISO3"]

(***************************************************************************)
(* 4.1 - 4.22 the input functions of the membership checks                 *)
(***************************************************************************)
INT_CRIT_ELEMENTS ==
    <<"(i)", "(ii)", "(iii)", "(iv)", "(v)", "(vi)", "(vii)", "(viii)", "(ix)", "(x)">>

\* ''.join(combi) for every combination of the elements from position k on,
\* the empty one included
RECURSIVE combinations(_)
combinations(k) ==
    IF k > Len(INT_CRIT_ELEMENTS) THEN {""}
    ELSE combinations(k + 1)
         \cup {INT_CRIT_ELEMENTS[k] \o rest : rest \in combinations(k + 1)}

\* the combinations of 1 to 10 elements
generate_combinations == {Str(s) : s \in combinations(1) \ {""}}

field_allowed_values_extra == {Str("Not Reported")}

\* datetime.date.today().year on the day the checks are run
year == 2026

yearArray == {0} \cup 1750..year

str(x) == Str(ToString(x))

\* the input functions: the factory function each of them calls and the arguments it gives
invalid_input_functions ==
    [invalid_pa_def |->
        [factory |-> "invalid_value_in_field",
         field |-> "PA_DEF",
         field_allowed_values |-> {Str("1")},
         condition_field |-> "",
         condition_crit |-> {}],
     invalid_desig_eng_international |->
        [factory |-> "invalid_value_in_field",
         field |-> "DESIG_ENG",
         field_allowed_values |-> {Str("Ramsar Site, Wetland of International Importance"),
                                  Str("UNESCO-MAB Biosphere Reserve"),
                                  Str("World Heritage Site (natural or mixed)")},
         condition_field |-> "DESIG_TYPE",
         condition_crit |-> {Str("International")}],
     invalid_desig_type_international |->
        [factory |-> "invalid_value_in_field",
         field |-> "DESIG_TYPE",
         field_allowed_values |-> {Str("International")},
         condition_field |-> "DESIG_ENG",
         condition_crit |-> {Str("Ramsar Site, Wetland of International Importance"),
                            Str("UNESCO-MAB Biosphere Reserve"),
                            Str("World Heritage Site (natural or mixed)")}],
     invalid_desig_eng_regional |->
        [factory |-> "invalid_value_in_field",
         field |-> "DESIG_ENG",
         field_allowed_values |-> {Str("Baltic Sea Protected Area (HELCOM)"),
                                  Str("Specially Protected Area (Cartagena Convention)"),
                                  Str("Marine Protected Area (CCAMLR)"),
                                  Str("Marine Protected Area (OSPAR)"),
                                  Str("Site of Community Importance (Habitats Directive)"),
                                  Str("Special Protection Area (Birds Directive)"),
                                  Str("Specially Protected Areas of Mediterranean Importance (Barcelona Convention)")},
         condition_field |-> "DESIG_TYPE",
         condition_crit |-> {Str("Regional")}],
     invalid_desig_type_regional |->
        [factory |-> "invalid_value_in_field",
         field |-> "DESIG_TYPE",
         field_allowed_values |-> {Str("Regional")},
         condition_field |-> "DESIG_ENG",
         condition_crit |-> {Str("Baltic Sea Protected Area (HELCOM)"),
                            Str("Specially Protected Area (Cartagena Convention)"),
                            Str("Marine Protected Area (CCAMLR)"),
                            Str("Marine Protected Area (OSPAR)"),
                            Str("Site of Community Importance (Habitats Directive)"),
                            Str("Special Protection Area (Birds Directive)"),
                            Str("Specially Protected Areas of Mediterranean Importance (Barcelona Convention)")}],
     invalid_int_crit_desig_eng_ramsar_whs |->
        [factory |-> "invalid_value_in_field",
         field |-> "INT_CRIT",
         field_allowed_values |-> generate_combinations \cup field_allowed_values_extra,
         condition_field |-> "DESIG_ENG",
         condition_crit |-> {Str("Ramsar Site, Wetland of International Importance"),
                            Str("World Heritage Site (natural or mixed)")}],
     invalid_desig_type |->
        [factory |-> "invalid_value_in_field",
         field |-> "DESIG_TYPE",
         field_allowed_values |-> {Str("National"),
                                  Str("Regional"),
                                  Str("International"),
                                  Str("Not Applicable")},
         condition_field |-> "",
         condition_crit |-> {}],
     invalid_iucn_cat |->
        [factory |-> "invalid_value_in_field",
         field |-> "IUCN_CAT",
         field_allowed_values |-> {Str("Ia"),
                                  Str("Ib"),
                                  Str("II"),
                                  Str("III"),
                                  Str("IV"),
                                  Str("V"),
                                  Str("VI"),
                                  Str("Not Reported"),
                                  Str("Not Applicable"),
                                  Str("Not Assigned")},
         condition_field |-> "",
         condition_crit |-> {}],
     invalid_iucn_cat_unesco_whs |->
        [factory |-> "invalid_value_in_field",
         field |-> "IUCN_CAT",
         field_allowed_values |-> {Str("Not Applicable")},
         condition_field |-> "DESIG_ENG",
         condition_crit |-> {Str("UNESCO-MAB Biosphere Reserve"),
                            Str("World Heritage Site (natural or mixed)")}],
     invalid_marine |->
        [factory |-> "invalid_value_in_field",
         field |-> "MARINE",
         field_allowed_values |-> {Str("0"), Str("1"), Str("2")},
         condition_field |-> "",
         condition_crit |-> {}],
     invalid_no_take_marine0 |->
        [factory |-> "invalid_value_in_field",
         field |-> "NO_TAKE",
         field_allowed_values |-> {Str("Not Applicable")},
         condition_field |-> "MARINE",
         condition_crit |-> {Str("0")}],
     invalid_no_take_marine12 |->
        [factory |-> "invalid_value_in_field",
         field |-> "NO_TAKE",
         field_allowed_values |-> {Str("All"), Str("Part"), Str("None"), Str("Not Reported")},
         condition_field |-> "MARINE",
         condition_crit |-> {Str("1"), Str("2")}],
     invalid_no_tk_area_marine0 |->
        [factory |-> "invalid_value_in_field",
         field |-> "NO_TK_AREA",
         field_allowed_values |-> {Num(0)},
         condition_field |-> "MARINE",
         condition_crit |-> {Str("0")}],
     invalid_no_tk_area_no_take |->
        [factory |-> "invalid_value_in_field",
         field |-> "NO_TK_AREA",
         field_allowed_values |-> {Num(0)},
         condition_field |-> "NO_TAKE",
         condition_crit |-> {Str("Not Applicable")}],
     invalid_status |->
        [factory |-> "invalid_value_in_field_isnot",
         field |-> "STATUS",
         field_allowed_values |-> {Str("Proposed"), Str("Designated"), Str("Established")},
         condition_field |-> "DESIG_ENG",
         condition_crit |-> {Str("World Heritage Site (natural or mixed)"),
                            Str("Specially Protected Areas of Mediterranean Importance (Barcelona Convention)")}],
     invalid_status_WH |->
        [factory |-> "invalid_value_in_field",
         field |-> "STATUS",
         field_allowed_values |-> {Str("Proposed"), Str("Inscribed")},
         condition_field |-> "DESIG_ENG",
         condition_crit |-> {Str("World Heritage Site (natural or mixed)")}],
     invalid_status_Barca |->
        [factory |-> "invalid_value_in_field",
         field |-> "STATUS",
         field_allowed_values |-> {Str("Proposed"), Str("Adopted")},
         condition_field |-> "DESIG_ENG",
         condition_crit |-> {Str("Specially Protected Areas of Mediterranean Importance (Barcelona Convention)")}],
     invalid_status_yr |->
        [factory |-> "invalid_value_in_field",
         field |-> "STATUS_YR",
         field_allowed_values |-> {str(x) : x \in yearArray},
         condition_field |-> "",
         condition_crit |-> {}],
     invalid_gov_type |->
        [factory |-> "invalid_value_in_field",
         field |-> "GOV_TYPE",
         field_allowed_values |-> {Str("Federal or national ministry or agency"),
                                  Str("Sub-national ministry or agency"),
                                  Str("Government-delegated management"),
                                  Str("Transboundary governance"),
                                  Str("Collaborative governance"),
                                  Str("Joint governance"),
                                  Str("Individual landowners"),
                                  Str("Non-profit organisations"),
                                  Str("For-profit organisations"),
                                  Str("Indigenous peoples"),
                                  Str("Local communities"),
                                  Str("Not Reported")},
         condition_field |-> "",
         condition_crit |-> {}],
     invalid_own_type |->
        [factory |-> "invalid_value_in_field",
         field |-> "OWN_TYPE",
         field_allowed_values |-> {Str("State"),
                                  Str("Communal"),
                                  Str("Individual landowners"),
                                  Str("For-profit organisations"),
                                  Str("Non-profit organisations"),
                                  Str("Joint ownership"),
                                  Str("Multiple ownership"),
                                  Str("Contested"),
                                  Str("Not Reported")},
         condition_field |-> "",
         condition_crit |-> {}],
     invalid_verif |->
        [factory |-> "invalid_value_in_field",
         field |-> "VERIF",
         field_allowed_values |-> {Str("State Verified"),
                                  Str("Expert Verified"),
                                  Str("Not Reported")},
         condition_field |-> "",
         condition_crit |-> {}],
     invalid_status_desig_type |->
        [factory |-> "invalid_value_in_field",
         field |-> "STATUS",
         field_allowed_values |-> {Str("Established")},
         condition_field |-> "DESIG_TYPE",
         condition_crit |-> {Str("Not Applicable")}]]

(***************************************************************************)
(* 4.20 - 4.21 country codes                                               *)
(***************************************************************************)
\* the position of the first sep in s from position k on, 0 when there is none
RECURSIVE find(_, _, _)
find(s, sep, k) ==
    IF k > Len(s) THEN 0
    ELSE IF SubSeq(s, k, k) = sep THEN k
    ELSE find(s, sep, k + 1)

\* s.split(sep)
RECURSIVE split(_, _)
split(s, sep) ==
    IF find(s, sep, 1) = 0 THEN <<s>>
    ELSE <<SubSeq(s, 1, find(s, sep, 1) - 1)>>
         \o split(SubSeq(s, find(s, sep, 1) + 1, Len(s)), sep)

\* looks at the first component only
correct_iso3_first(code) == split(code, ";")[1] \in iso3

correct_iso3(code) == \A each \in Range(split(code, ";")) : each \in iso3

\* a missing cell is a float or None, which has no split()
invalid_country_codes(df, field, return_pid) ==
    IF \E i \in Index(df) : ~IsStr(df[i][field])
    THEN [df |-> df, selected |-> {}, ret |-> Raised("AttributeError")]
    ELSE Outcome(df, {i \in Index(df) : ~correct_iso3(df[i][field].s)}, return_pid)

(***************************************************************************)
(* 5.1 - 5.4 the input functions of area_invalid_size                      *)
(***************************************************************************)
area_invalid_size_input_functions ==
    [area_invalid_no_tk_area_rep_m_area |->
        [field_small_area |-> "NO_TK_AREA", field_large_area |-> "REP_M_AREA"],
     area_invalid_no_tk_area_gis_m_area |->
        [field_small_area |-> "NO_TK_AREA", field_large_area |-> "GIS_M_AREA"],
     area_invalid_gis_m_area_gis_area |->
        [field_small_area |-> "GIS_M_AREA", field_large_area |-> "GIS_AREA"],
     area_invalid_rep_m_area_rep_area |->
        [field_small_area |-> "REP_M_AREA", field_large_area |-> "REP_AREA"]]

(***************************************************************************)
(* 6. forbidden characters                                                 *)
(***************************************************************************)
forbidden_characters == {"<", ">", "?", "*", "\r", "\n"}

\* DataFrame.dropna(): the labels of the rows without a missing value in
\* any column of the table
dropna(df) == {i \in Index(df) : \A f \in DOMAIN df[i] : ~IsNull(df[i][f])}

\* Series.str.contains(pattern) for the pattern that joins the characters
contains(s, characters) == \E k \in 1..Len(s) : SubSeq(s, k, k) \in characters

forbidden_character(df, check_field, return_pid) ==
    Outcome(df, {i \in dropna(df) :
                    /\ IsStr(df[i][check_field])
                    /\ contains(df[i][check_field].s, forbidden_characters)}, return_pid)

\* 6.1 - 6.7 the input functions: the check_field each of them gives
forbidden_character_input_functions ==
    [forbidden_character_name |-> "NAME",
     forbidden_character_orig_name |-> "ORIG_NAME",
     forbidden_character_desig |-> "DESIG",
     forbidden_character_desig_eng |-> "DESIG_ENG",
     forbidden_character_mang_auth |-> "MANG_AUTH",
     forbidden_character_mang_plan |-> "MANG_PLAN",
     forbidden_character_sub_loc |-> "SUB_LOC"]

(***************************************************************************)
(* 7. NaN / NA / None present                                              *)
(***************************************************************************)
\* selects the rows with a missing value in any field
nan_present_any_field(df, check_field, return_pid) ==
    Outcome(df, Index(df) \ dropna(df), return_pid)

nan_present(df, check_field, return_pid) ==
    Outcome(df, {i \in Index(df) : IsNull(df[i][check_field])}, return_pid)

\* 7.1 - 7.8 the input functions: the check_field each of them gives
nan_present_input_functions ==
    [ivd_nan_present_name |-> "NAME",
     ivd_nan_present_orig_name |-> "ORIG_NAME",
     ivd_nan_present_desig |-> "DESIG",
     ivd_nan_present_desig_eng |-> "DESIG_ENG",
     ivd_nan_present_mang_auth |-> "MANG_AUTH",
     ivd_nan_present_mang_plan |-> "MANG_PLAN",
     ivd_nan_present_sub_loc |-> "SUB_LOC",
     ivd_nan_present_metadataid |-> "METADATAID"]

(***************************************************************************)
(* The checks to run: name and function of every check.  A function is     *)
(* named by a string and called through Apply.                             *)
(***************************************************************************)
core_checks ==
    <<[name |-> "duplicate_wdpa_pid", func |-> "duplicate_wdpa_pid"],
      [name |-> "tiny_rep_area", func |-> "area_invalid_rep_area"],
      [name |-> "zero_rep_m_area_marine12", func |-> "area_invalid_rep_m_area_marine12"],
      [name |-> "ivd_rep_m_area_gt_rep_area", func |-> "area_invalid_rep_m_area_rep_area"],
      [name |-> "ivd_no_tk_area_gt_rep_m_area", func |-> "area_invalid_no_tk_area_rep_m_area"],
      [name |-> "ivd_no_tk_area_rep_m_area", func |-> "invalid_no_take_no_tk_area_rep_m_area"],
      [name |-> "ivd_int_crit_desig_eng_other", func |-> "invalid_int_crit_desig_eng_other"],
      [name |-> "ivd_desig_eng_iucn_cat_other", func |-> "invalid_desig_eng_iucn_cat_other"],
      [name |-> "dif_name_same_id", func |-> "inconsistent_name_same_wdpaid"],
      [name |-> "dif_orig_name_same_id", func |-> "inconsistent_orig_name_same_wdpaid"],
      [name |-> "ivd_dif_desig_same_id", func |-> "inconsistent_desig_same_wdpaid"],
      [name |-> "ivd_dif_desig_eng_same_id", func |-> "inconsistent_desig_eng_same_wdpaid"],
      [name |-> "dif_desig_type_same_id", func |-> "inconsistent_desig_type_same_wdpaid"],
      [name |-> "dif_int_crit_same_id", func |-> "inconsistent_int_crit_same_wdpaid"],
      [name |-> "dif_no_take_same_id", func |-> "inconsistent_no_take_same_wdpaid"],
      [name |-> "dif_status_same_id", func |-> "inconsistent_status_same_wdpaid"],
      [name |-> "dif_status_yr_same_id", func |-> "inconsistent_status_yr_same_wdpaid"],
      [name |-> "dif_gov_type_same_id", func |-> "inconsistent_gov_type_same_wdpaid"],
      [name |-> "dif_own_type_same_id", func |-> "inconsistent_own_type_same_wdpaid"],
      [name |-> "dif_mang_auth_same_id", func |-> "inconsistent_mang_auth_same_wdpaid"],
      [name |-> "dif_mang_plan_same_id", func |-> "inconsistent_mang_plan_same_wdpaid"],
      [name |-> "ivd_dif_verif_same_id", func |-> "inconsistent_verif_same_wdpaid"],
      [name |-> "ivd_dif_metadataid_same_id", func |-> "inconsistent_metadataid_same_wdpaid"],
      [name |-> "ivd_dif_sub_loc_same_id", func |-> "inconsistent_sub_loc_same_wdpaid"],
      [name |-> "ivd_dif_parent_iso3_same_id", func |-> "inconsistent_parent_iso3_same_wdpaid"],
      [name |-> "ivd_dif_iso3_same_id", func |-> "inconsistent_iso3_same_wdpaid"],
      [name |-> "ivd_pa_def", func |-> "invalid_pa_def"],
      [name |-> "ivd_desig_eng_international", func |-> "invalid_desig_eng_international"],
      [name |-> "ivd_desig_type_international", func |-> "invalid_desig_type_international"],
      [name |-> "ivd_desig_eng_regional", func |-> "invalid_desig_eng_regional"],
      [name |-> "ivd_desig_type_regional", func |-> "invalid_desig_type_regional"],
      [name |-> "ivd_int_crit", func |-> "invalid_int_crit_desig_eng_ramsar_whs"],
      [name |-> "ivd_desig_type", func |-> "invalid_desig_type"],
      [name |-> "ivd_iucn_cat", func |-> "invalid_iucn_cat"],
      [name |-> "ivd_iucn_cat_unesco_whs", func |-> "invalid_iucn_cat_unesco_whs"],
      [name |-> "ivd_marine", func |-> "invalid_marine"],
      [name |-> "check_no_take_marine0", func |-> "invalid_no_take_marine0"],
      [name |-> "ivd_no_take_marine12", func |-> "invalid_no_take_marine12"],
      [name |-> "check_no_tk_area_marine0", func |-> "invalid_no_tk_area_marine0"],
      [name |-> "ivd_no_tk_area_no_take", func |-> "invalid_no_tk_area_no_take"],
      [name |-> "ivd_status", func |-> "invalid_status"],
      [name |-> "ivd_status_WH", func |-> "invalid_status_WH"],
      [name |-> "ivd_status_BarcelonaConv", func |-> "invalid_status_Barca"],
      [name |-> "ivd_status_yr", func |-> "invalid_status_yr"],
      [name |-> "ivd_gov_type", func |-> "invalid_gov_type"],
      [name |-> "ivd_own_type", func |-> "invalid_own_type"],
      [name |-> "ivd_verif", func |-> "invalid_verif"],
      [name |-> "check_parent_iso3", func |-> "invalid_parent_iso3"],
      [name |-> "check_iso3", func |-> "invalid_iso3"],
      [name |-> "ivd_status_desig_type", func |-> "invalid_status_desig_type"],
      [name |-> "ivd_character_name", func |-> "forbidden_character_name"],
      [name |-> "ivd_character_orig_name", func |-> "forbidden_character_orig_name"],
      [name |-> "ivd_character_desig", func |-> "forbidden_character_desig"],
      [name |-> "ivd_character_desig_eng", func |-> "forbidden_character_desig_eng"],
      [name |-> "ivd_character_mang_auth", func |-> "forbidden_character_mang_auth"],
      [name |-> "ivd_character_mang_plan", func |-> "forbidden_character_mang_plan"],
      [name |-> "ivd_character_sub_loc", func |-> "forbidden_character_sub_loc"],
      [name |-> "ivd_nan_present_name", func |-> "ivd_nan_present_name"],
      [name |-> "ivd_nan_present_orig_name", func |-> "ivd_nan_present_orig_name"],
      [name |-> "ivd_nan_present_desig", func |-> "ivd_nan_present_desig"],
      [name |-> "ivd_nan_present_desig_eng", func |-> "ivd_nan_present_desig_eng"],
      [name |-> "ivd_nan_present_mang_auth", func |-> "ivd_nan_present_mang_auth"],
      [name |-> "ivd_nan_present_mang_plan", func |-> "ivd_nan_present_mang_plan"],
      [name |-> "ivd_nan_present_sub_loc", func |-> "ivd_nan_present_sub_loc"],
      [name |-> "ivd_nan_present_metadataid", func |-> "ivd_nan_present_metadataid"]>>

area_checks ==
    <<[name |-> "gis_area_gt_rep_area", func |-> "area_invalid_too_large_gis"],
      [name |-> "rep_area_gt_gis_area", func |-> "area_invalid_too_large_rep"],
      [name |-> "gis_m_area_gt_rep_m_area", func |-> "area_invalid_too_large_gis_m"],
      [name |-> "rep_m_area_gt_gis_m_area", func |-> "area_invalid_too_large_rep_m"],
      [name |-> "tiny_gis_area", func |-> "area_invalid_gis_area"],
      [name |-> "no_tk_area_gt_gis_m_area", func |-> "area_invalid_no_tk_area_gis_m_area"],
      [name |-> "ivd_gis_m_area_gt_gis_area", func |-> "area_invalid_gis_m_area_gis_area"],
      [name |-> "zero_gis_m_area_marine12", func |-> "area_invalid_gis_m_area_marine12"],
      [name |-> "ivd_marine_designation", func |-> "area_invalid_marine"]>>

(***************************************************************************)
(* The fields each function of the lists reads: the columns its body, and  *)
(* the body of the factory function it calls with the arguments it gives,  *)
(* take from wdpa_df                                                       *)
(***************************************************************************)
fields_read ==
    [duplicate_wdpa_pid |-> {"WDPA_PID"},
     area_invalid_rep_area |-> {"WDPA_PID", "REP_AREA"},
     area_invalid_rep_m_area_marine12 |-> {"WDPA_PID", "MARINE", "REP_M_AREA"},
     area_invalid_rep_m_area_rep_area |-> {"WDPA_PID", "REP_M_AREA", "REP_AREA"},
     area_invalid_no_tk_area_rep_m_area |-> {"WDPA_PID", "REP_M_AREA", "NO_TK_AREA"},
     invalid_no_take_no_tk_area_rep_m_area |-> {"WDPA_PID", "REP_M_AREA", "NO_TAKE", "NO_TK_AREA"},
     invalid_int_crit_desig_eng_other |-> {"WDPA_PID", "DESIG_ENG", "INT_CRIT"},
     invalid_desig_eng_iucn_cat_other |-> {"WDPA_PID", "DESIG_ENG", "IUCN_CAT"},
     inconsistent_name_same_wdpaid |-> {"WDPAID", "WDPA_PID", "NAME"},
     inconsistent_orig_name_same_wdpaid |-> {"WDPAID", "WDPA_PID", "ORIG_NAME"},
     inconsistent_desig_same_wdpaid |-> {"WDPAID", "WDPA_PID", "DESIG"},
     inconsistent_desig_eng_same_wdpaid |-> {"WDPAID", "WDPA_PID", "DESIG_ENG"},
     inconsistent_desig_type_same_wdpaid |-> {"WDPAID", "WDPA_PID", "DESIG_TYPE"},
     inconsistent_int_crit_same_wdpaid |-> {"WDPAID", "WDPA_PID", "INT_CRIT"},
     inconsistent_no_take_same_wdpaid |-> {"WDPAID", "WDPA_PID", "NO_TAKE"},
     inconsistent_status_same_wdpaid |-> {"WDPAID", "WDPA_PID", "STATUS"},
     inconsistent_status_yr_same_wdpaid |-> {"WDPAID", "WDPA_PID", "STATUS_YR"},
     inconsistent_gov_type_same_wdpaid |-> {"WDPAID", "WDPA_PID", "GOV_TYPE"},
     inconsistent_own_type_same_wdpaid |-> {"WDPAID", "WDPA_PID", "OWN_TYPE"},
     inconsistent_mang_auth_same_wdpaid |-> {"WDPAID", "WDPA_PID", "MANG_AUTH"},
     inconsistent_mang_plan_same_wdpaid |-> {"WDPAID", "WDPA_PID", "MANG_PLAN"},
     inconsistent_verif_same_wdpaid |-> {"WDPAID", "WDPA_PID", "VERIF"},
     inconsistent_metadataid_same_wdpaid |-> {"WDPAID", "WDPA_PID", "METADATAID"},
     inconsistent_sub_loc_same_wdpaid |-> {"WDPAID", "WDPA_PID", "SUB_LOC"},
     inconsistent_parent_iso3_same_wdpaid |-> {"WDPAID", "WDPA_PID", "PARENT_ISO3"},
     inconsistent_iso3_same_wdpaid |-> {"WDPAID", "WDPA_PID", "ISO3"},
     invalid_pa_def |-> {"WDPA_PID", "PA_DEF"},
     invalid_desig_eng_international |-> {"WDPA_PID", "DESIG_ENG", "DESIG_TYPE"},
     invalid_desig_type_international |-> {"WDPA_PID", "DESIG_ENG", "DESIG_TYPE"},
     invalid_desig_eng_regional |-> {"WDPA_PID", "DESIG_ENG", "DESIG_TYPE"},
     invalid_desig_type_regional |-> {"WDPA_PID", "DESIG_ENG", "DESIG_TYPE"},
     invalid_int_crit_desig_eng_ramsar_whs |-> {"WDPA_PID", "DESIG_ENG", "INT_CRIT"},
     invalid_desig_type |-> {"WDPA_PID", "DESIG_TYPE"},
     invalid_iucn_cat |-> {"WDPA_PID", "IUCN_CAT"},
     invalid_iucn_cat_unesco_whs |-> {"WDPA_PID", "DESIG_ENG", "IUCN_CAT"},
     invalid_marine |-> {"WDPA_PID", "MARINE"},
     invalid_no_take_marine0 |-> {"WDPA_PID", "MARINE", "NO_TAKE"},
     invalid_no_take_marine12 |-> {"WDPA_PID", "MARINE", "NO_TAKE"},
     invalid_no_tk_area_marine0 |-> {"WDPA_PID", "MARINE", "NO_TK_AREA"},
     invalid_no_tk_area_no_take |-> {"WDPA_PID", "NO_TAKE", "NO_TK_AREA"},
     invalid_status |-> {"WDPA_PID", "DESIG_ENG", "STATUS"},
     invalid_status_WH |-> {"WDPA_PID", "DESIG_ENG", "STATUS"},
     invalid_status_Barca |-> {"WDPA_PID", "DESIG_ENG", "STATUS"},
     invalid_status_yr |-> {"WDPA_PID", "STATUS_YR"},
     invalid_gov_type |-> {"WDPA_PID", "GOV_TYPE"},
     invalid_own_type |-> {"WDPA_PID", "OWN_TYPE"},
     invalid_verif |-> {"WDPA_PID", "VERIF"},
     invalid_parent_iso3 |-> {"WDPA_PID", "PARENT_ISO3"},
     invalid_iso3 |-> {"WDPA_PID", "ISO3"},
     invalid_status_desig_type |-> {"WDPA_PID", "DESIG_TYPE", "STATUS"},
     forbidden_character_name |-> {"WDPA_PID", "NAME"},
     forbidden_character_orig_name |-> {"WDPA_PID", "ORIG_NAME"},
     forbidden_character_desig |-> {"WDPA_PID", "DESIG"},
     forbidden_character_desig_eng |-> {"WDPA_PID", "DESIG_ENG"},
     forbidden_character_mang_auth |-> {"WDPA_PID", "MANG_AUTH"},
     forbidden_character_mang_plan |-> {"WDPA_PID", "MANG_PLAN"},
     forbidden_character_sub_loc |-> {"WDPA_PID", "SUB_LOC"},
     ivd_nan_present_name |-> {"WDPA_PID", "NAME"},
     ivd_nan_present_orig_name |-> {"WDPA_PID", "ORIG_NAME"},
     ivd_nan_present_desig |-> {"WDPA_PID", "DESIG"},
     ivd_nan_present_desig_eng |-> {"WDPA_PID", "DESIG_ENG"},
     ivd_nan_present_mang_auth |-> {"WDPA_PID", "MANG_AUTH"},
     ivd_nan_present_mang_plan |-> {"WDPA_PID", "MANG_PLAN"},
     ivd_nan_present_sub_loc |-> {"WDPA_PID", "SUB_LOC"},
     ivd_nan_present_metadataid |-> {"WDPA_PID", "METADATAID"},
     area_invalid_too_large_gis |-> {"WDPA_PID", "REP_AREA", "GIS_AREA"},
     area_invalid_too_large_rep |-> {"WDPA_PID", "REP_AREA", "GIS_AREA"},
     area_invalid_too_large_gis_m |-> {"WDPA_PID", "REP_M_AREA", "GIS_M_AREA"},
     area_invalid_too_large_rep_m |-> {"WDPA_PID", "REP_M_AREA", "GIS_M_AREA"},
     area_invalid_gis_area |-> {"WDPA_PID", "GIS_AREA"},
     area_invalid_no_tk_area_gis_m_area |-> {"WDPA_PID", "GIS_M_AREA", "NO_TK_AREA"},
     area_invalid_gis_m_area_gis_area |-> {"WDPA_PID", "GIS_M_AREA", "GIS_AREA"},
     area_invalid_gis_m_area_marine12 |-> {"WDPA_PID", "MARINE", "GIS_M_AREA"},
     area_invalid_marine |-> {"WDPA_PID", "MARINE", "GIS_M_AREA", "GIS_AREA"}]

\* the core list twice
poly_checks_core_twice == core_checks \o core_checks

\* the area list in front of the core list
poly_checks_area_first == area_checks \o core_checks

poly_checks == core_checks \o area_checks

\* the area list run on points as well
pt_checks_with_area == poly_checks

pt_checks == core_checks

\* the call func(wdpa_df, return_pid) of a function of the lists: the function itself, or for
\* an input function the call of its factory function with the arguments it gives
Apply(func, df, return_pid) ==
    CASE func = "duplicate_wdpa_pid" -> duplicate_wdpa_pid(df, return_pid)
      [] func = "area_invalid_rep_area" -> area_invalid_rep_area(df, return_pid)
      [] func = "area_invalid_rep_m_area_marine12" -> area_invalid_rep_m_area_marine12(df, return_pid)
      [] func = "invalid_no_take_no_tk_area_rep_m_area" -> invalid_no_take_no_tk_area_rep_m_area(df, return_pid)
      [] func = "invalid_int_crit_desig_eng_other" -> invalid_int_crit_desig_eng_other(df, return_pid)
      [] func = "invalid_desig_eng_iucn_cat_other" -> invalid_desig_eng_iucn_cat_other(df, return_pid)
      [] func = "invalid_parent_iso3" -> invalid_country_codes(df, "PARENT_ISO3", return_pid)
      [] func = "invalid_iso3" -> invalid_country_codes(df, "ISO3", return_pid)
      [] func = "area_invalid_too_large_gis" -> area_invalid_too_large_gis(df, return_pid)
      [] func = "area_invalid_too_large_rep" -> area_invalid_too_large_rep(df, return_pid)
      [] func = "area_invalid_too_large_gis_m" -> area_invalid_too_large_gis_m(df, return_pid)
      [] func = "area_invalid_too_large_rep_m" -> area_invalid_too_large_rep_m(df, return_pid)
      [] func = "area_invalid_gis_area" -> area_invalid_gis_area(df, return_pid)
      [] func = "area_invalid_gis_m_area_marine12" -> area_invalid_gis_m_area_marine12(df, return_pid)
      [] func = "area_invalid_marine" -> area_invalid_marine(df, return_pid)
      [] func \in DOMAIN inconsistent_input_functions ->
            inconsistent_fields_same_wdpaid(df, inconsistent_input_functions[func], return_pid)
      [] func \in DOMAIN invalid_input_functions ->
            LET args == invalid_input_functions[func]
            IN  IF args.factory = "invalid_value_in_field"
                THEN invalid_value_in_field(df, args.field, args.field_allowed_values,
                                            args.condition_field, args.condition_crit, return_pid)
                ELSE invalid_value_in_field_isnot(df, args.field, args.field_allowed_values,
                                                  args.condition_field, args.condition_crit, return_pid)
      [] func \in DOMAIN area_invalid_size_input_functions ->
            area_invalid_size(df, area_invalid_size_input_functions[func].field_small_area,
                              area_invalid_size_input_functions[func].field_large_area, return_pid)
      [] func \in DOMAIN forbidden_character_input_functions ->
            forbidden_character(df, forbidden_character_input_functions[func], return_pid)
      [] func \in DOMAIN nan_present_input_functions ->
            nan_present(df, nan_present_input_functions[func], return_pid)

(***************************************************************************)
(* Tables the checks are run on                                            *)
(***************************************************************************)
\* a record that passes every check
DefaultRow ==
    [f \in Range(INPUT_FIELDS_POLY) |->
        CASE f = "WDPAID" -> Num(1)
          [] f = "WDPA_PID" -> Str("1")
          [] f = "PA_DEF" -> Str("1")
          [] f = "NAME" -> Str("Park")
          [] f = "ORIG_NAME" -> Str("Park")
          [] f = "DESIG" -> Str("National Park")
          [] f = "DESIG_ENG" -> Str("National Park")
          [] f = "DESIG_TYPE" -> Str("National")
          [] f = "IUCN_CAT" -> Str("II")
          [] f = "INT_CRIT" -> Str("Not Applicable")
          [] f = "MARINE" -> Str("0")
          [] f = "REP_M_AREA" -> Num(0)
          [] f = "GIS_M_AREA" -> Num(0)
          [] f = "REP_AREA" -> Num(1)
          [] f = "GIS_AREA" -> Num(1)
          [] f = "NO_TAKE" -> Str("Not Applicable")
          [] f = "NO_TK_AREA" -> Num(0)
          [] f = "STATUS" -> Str("Designated")
          [] f = "STATUS_YR" -> Str("1990")
          [] f = "GOV_TYPE" -> Str("Not Reported")
          [] f = "OWN_TYPE" -> Str("Not Reported")
          [] f = "MANG_AUTH" -> Str("Agency")
          [] f = "MANG_PLAN" -> Str("Not Reported")
          [] f = "VERIF" -> Str("State Verified")
          [] f = "METADATAID" -> Num(1)
          [] f = "SUB_LOC" -> Str("Not Reported")
          [] f = "PARENT_ISO3" -> Str("USA")
          [] f = "ISO3" -> Str("USA")]

\* DefaultRow with the cells of the record r written over it
Row(r) == [f \in DOMAIN DefaultRow |-> IF f \in DOMAIN r THEN r[f] ELSE DefaultRow[f]]

\* every table of 1..maxRows rows drawn from a set of rows
Tables(rows, maxRows) == UNION {[1..n -> rows] : n \in 1..maxRows}

\* a table whose records are numbered: row i has WDPA_PID "i" and WDPAID i
Numbered(df) ==
    [i \in DOMAIN df |-> [df[i] EXCEPT !["WDPA_PID"] = Str(ToString(i)),
                                       !["WDPAID"] = Num(i)]]

NoCall == [func |-> "none"]

NoReturn == [t |-> "none"]

\* what is common to every initial state: no check has been called yet
Fresh ==
    /\ call = NoCall
    /\ selected = {}
    /\ ret = NoReturn

\* the effect of a call: the table as the function leaves it, the rows its
\* mask selected and the value it returned
Called(c, r) ==
    /\ wdpa_df' = r.df
    /\ call' = c
    /\ selected' = r.selected
    /\ ret' = r.ret

(***************************************************************************)
(* duplicate_wdpa_pid on tables whose WDPA_PID cells are drawn freely      *)
(***************************************************************************)
MaxDupRows == 4

DupRows == {Row([WDPA_PID |-> v]) : v \in {Null, Str("1"), Str("2")}}

InitDup ==
    /\ wdpa_df \in Tables(DupRows, MaxDupRows)
    /\ Fresh

Call_duplicate_wdpa_pid ==
    \E return_pid \in BOOLEAN :
        Called([func |-> "duplicate_wdpa_pid", return_pid |-> return_pid],
               duplicate_wdpa_pid(wdpa_df, return_pid))

NextDup == Call_duplicate_wdpa_pid

SpecDup == InitDup /\ [][NextDup]_vars

(***************************************************************************)
(* the membership factory functions, called with explicit arguments        *)
(***************************************************************************)
MaxMemberRows == 2

WorldHeritage == Str("World Heritage Site (natural or mixed)")

MemberRows ==
    {Row([STATUS |-> s, DESIG_ENG |-> d]) :
        s \in {Null, Str("Proposed"), Str("Inscribed")},
        d \in {Null, WorldHeritage, Str("National Park")}}

InitMember ==
    /\ wdpa_df \in {Numbered(df) : df \in Tables(MemberRows, MaxMemberRows)}
    /\ Fresh

\* the allowed-value lists and the conditions the factory functions are called with
AllowedArgs == {{}, {Str("Proposed")}, {Str("Inscribed")}, {Str("Proposed"), Str("Inscribed")}}

ConditionArgs ==
    {<<"", {}>>, <<"DESIG_ENG", {}>>, <<"", {WorldHeritage}>>,
     <<"DESIG_ENG", {WorldHeritage}>>,
     <<"DESIG_ENG", {WorldHeritage, Str("National Park")}>>}

MemberCall(func, allowed, cond, return_pid) ==
    [func |-> func, field |-> "STATUS", field_allowed_values |-> allowed,
     condition_field |-> cond[1], condition_crit |-> cond[2], return_pid |-> return_pid]

Call_invalid_value_in_field ==
    \E allowed \in AllowedArgs, cond \in ConditionArgs, return_pid \in BOOLEAN :
        Called(MemberCall("invalid_value_in_field", allowed, cond, return_pid),
               invalid_value_in_field(wdpa_df, "STATUS", allowed, cond[1], cond[2], return_pid))

Call_invalid_value_in_field_isnot ==
    \E allowed \in AllowedArgs, cond \in ConditionArgs, return_pid \in BOOLEAN :
        Called(MemberCall("invalid_value_in_field_isnot", allowed, cond, return_pid),
               invalid_value_in_field_isnot(wdpa_df, "STATUS", allowed, cond[1], cond[2], return_pid))

NextMember == Call_invalid_value_in_field \/ Call_invalid_value_in_field_isnot

SpecMember == InitMember /\ [][NextMember]_vars

(***************************************************************************)
(* area_invalid_size, called with explicit arguments                       *)
(***************************************************************************)
MaxSizeRows == 2

\* (NO_TK_AREA, REP_M_AREA) pairs around the 1.0001 threshold
SizePairs ==
    {<<Num(20000), Num(20000)>>, <<Num(20001), Num(20000)>>, <<Num(20002), Num(20000)>>,
     <<Num(20003), Num(20000)>>, <<Num(20004), Num(20000)>>, <<Num(0), Num(0)>>,
     <<Num(1), Num(0)>>, <<Num(-1), Num(-1)>>, <<Num(-20000), Num(-20000)>>,
     <<Null, Num(20000)>>, <<Num(20004), Null>>, <<Null, Null>>}

SizeRows == {Row([NO_TK_AREA |-> p[1], REP_M_AREA |-> p[2]]) : p \in SizePairs}

InitSize ==
    /\ wdpa_df \in {Numbered(df) : df \in Tables(SizeRows, MaxSizeRows)}
    /\ Fresh

SizeArgs == {<<"NO_TK_AREA", "REP_M_AREA">>, <<"REP_M_AREA", "NO_TK_AREA">>,
             <<"", "REP_M_AREA">>, <<"NO_TK_AREA", "">>}

Call_area_invalid_size ==
    \E a \in SizeArgs, return_pid \in BOOLEAN :
        Called([func |-> "area_invalid_size", field_small_area |-> a[1],
                field_large_area |-> a[2], return_pid |-> return_pid],
               area_invalid_size(wdpa_df, a[1], a[2], return_pid))

NextSize == Call_area_invalid_size

SpecSize == InitSize /\ [][NextSize]_vars

(***************************************************************************)
(* the four statistical area checks, on tables made of some copies of a    *)
(* record whose areas all agree followed by a few records drawn freely     *)
(***************************************************************************)
MaxAreaRows == 2

MaxBaseCopies == 5

BaseAreaRow == Row([REP_AREA |-> Num(1), GIS_AREA |-> Num(1),
                    REP_M_AREA |-> Num(1), GIS_M_AREA |-> Num(1)])

\* <<REP_AREA, GIS_AREA, REP_M_AREA, GIS_M_AREA>>
AreaTuples ==
    {<<Num(1), Num(60), Num(60), Num(1)>>,
     <<Num(60), Num(1), Num(1), Num(60)>>,
     <<Num(1), Num(120), Num(1), Num(120)>>,
     <<Num(1), Num(99), Num(1), Num(99)>>,
     <<Num(1), Num(2), Num(2), Num(1)>>,
     <<Num(1), Num(-1), Num(1), Num(-1)>>,
     <<Num(-1), Num(60), Num(60), Num(-1)>>,
     <<Num(0), Num(60), Num(60), Num(0)>>,
     <<Num(0), Num(0), Num(0), Num(0)>>,
     <<Null, Num(60), Num(60), Null>>}

AreaRows == {Row([REP_AREA |-> p[1], GIS_AREA |-> p[2],
                  REP_M_AREA |-> p[3], GIS_M_AREA |-> p[4]]) : p \in AreaTuples}

AreaTables ==
    {Numbered([i \in 1..k |-> BaseAreaRow] \o df) :
        k \in 0..MaxBaseCopies, df \in Tables(AreaRows, MaxAreaRows)}

InitArea ==
    /\ wdpa_df \in AreaTables
    /\ Fresh

Call_area_invalid_too_large_gis ==
    \E return_pid \in BOOLEAN :
        Called([func |-> "area_invalid_too_large_gis", return_pid |-> return_pid],
               area_invalid_too_large_gis(wdpa_df, return_pid))

Call_area_invalid_too_large_rep ==
    \E return_pid \in BOOLEAN :
        Called([func |-> "area_invalid_too_large_rep", return_pid |-> return_pid],
               area_invalid_too_large_rep(wdpa_df, return_pid))

Call_area_invalid_too_large_gis_m ==
    \E return_pid \in BOOLEAN :
        Called([func |-> "area_invalid_too_large_gis_m", return_pid |-> return_pid],
               area_invalid_too_large_gis_m(wdpa_df, return_pid))

Call_area_invalid_too_large_rep_m ==
    \E return_pid \in BOOLEAN :
        Called([func |-> "area_invalid_too_large_rep_m", return_pid |-> return_pid],
               area_invalid_too_large_rep_m(wdpa_df, return_pid))

NextArea ==
    \/ Call_area_invalid_too_large_gis
    \/ Call_area_invalid_too_large_rep
    \/ Call_area_invalid_too_large_gis_m
    \/ Call_area_invalid_too_large_rep_m

SpecArea == InitArea /\ [][NextArea]_vars

(***************************************************************************)
(* The checks for polygons, run one after the other on the same table in   *)
(* any order and in either mode                                            *)
(***************************************************************************)
MaxCatalogRows == 2

\* a record that passes every check; a record without a missing value but
\* with zero GIS areas and a forbidden character in its NAME; a record
\* without WDPA_PID and with a MARINE value its areas contradict; a record
\* with the WDPA_PID of the first and a forbidden character in its NAME
CatalogRows ==
    {DefaultRow,
     Row([WDPA_PID |-> Str("2"), NAME |-> Str("Park <2>"),
          GIS_AREA |-> Num(0), GIS_M_AREA |-> Num(0)]),
     Row([WDPA_PID |-> Null, MARINE |-> Str("2")]),
     Row([NAME |-> Str("Lake?"), WDPAID |-> Num(2)])}

InitCatalog ==
    /\ wdpa_df \in Tables(CatalogRows, MaxCatalogRows)
    /\ Fresh

Call_poly_check ==
    \E k \in DOMAIN poly_checks, return_pid \in BOOLEAN :
        Called([func |-> poly_checks[k].func, name |-> poly_checks[k].name,
                return_pid |-> return_pid],
               Apply(poly_checks[k].func, wdpa_df, return_pid))

NextCatalog == Call_poly_check

SpecCatalog == InitCatalog /\ [][NextCatalog]_vars

(***************************************************************************)
(* the statistical checks on tables whose records all have equal areas     *)
(***************************************************************************)
MaxEqualRows == 3

\* the value the four area fields of a record share
EqualValues == {Num(1), Num(1000), Num(0), Num(-5), Null}

EqualRows == {Row([REP_AREA |-> v, GIS_AREA |-> v, REP_M_AREA |-> v, GIS_M_AREA |-> v]) :
                v \in EqualValues}

InitEqual ==
    /\ wdpa_df \in {Numbered(df) : df \in Tables(EqualRows, MaxEqualRows)}
    /\ Fresh

SpecEqual == InitEqual /\ [][NextArea]_vars

(***************************************************************************)
(* the statistical checks on up to a hundred records with equal areas and  *)
(* one more record whose areas are far apart                               *)
(***************************************************************************)
MaxEqualRecords == 100

\* <<reported, GIS>> of the last record
FarApartPairs == {<<Num(1000), Num(1)>>, <<Num(1), Num(1000)>>, <<Num(60), Num(1)>>}

\* record i has the areas a (reported) and b (GIS), marine areas alike
AreaRecord(a, b) ==
    Row([REP_AREA |-> a, GIS_AREA |-> b, REP_M_AREA |-> a, GIS_M_AREA |-> b])

\* k records with A = B = 1, 2, ..., k and then the record with the pair p
EqualAndOne(k, p) ==
    Numbered([i \in 1..(k + 1) |->
                IF i <= k THEN AreaRecord(Num(i), Num(i)) ELSE AreaRecord(p[1], p[2])])

InitHundred ==
    /\ wdpa_df \in {EqualAndOne(k, p) : k \in 1..MaxEqualRecords, p \in FarApartPairs}
    /\ Fresh

SpecHundred == InitHundred /\ [][NextArea]_vars

(***************************************************************************)
(* area_invalid_marine on tables whose GIS areas sit on and around the     *)
(* limits of the bands                                                     *)
(***************************************************************************)
MaxMarineRows == 2

\* <<GIS_M_AREA, GIS_AREA>> with the ratios 0, 0.1, 0.1 (not in lowest
\* terms), 0.10001, 0.5, 0.9, 1, 2, -0.1, +inf and NaN, each with every
\* MARINE value; and records without MARINE, GIS_M_AREA or GIS_AREA
MarineRows ==
    {Row([GIS_M_AREA |-> Num(p[1]), GIS_AREA |-> Num(p[2]), MARINE |-> Str(v)]) :
        p \in {<<0, 1>>, <<1, 10>>, <<3, 30>>, <<10001, 100000>>, <<1, 2>>, <<9, 10>>,
               <<1, 1>>, <<2, 1>>, <<-1, 10>>, <<1, 0>>, <<0, 0>>},
        v \in {"0", "1", "2"}}
    \cup {Row([GIS_M_AREA |-> Num(1), GIS_AREA |-> Num(2), MARINE |-> Null]),
          Row([GIS_M_AREA |-> Num(0), GIS_AREA |-> Num(0), MARINE |-> Null]),
          Row([GIS_M_AREA |-> Null, GIS_AREA |-> Num(1), MARINE |-> Str("0")]),
          Row([GIS_M_AREA |-> Num(1), GIS_AREA |-> Null, MARINE |-> Str("2")])}

InitMarine ==
    /\ wdpa_df \in {Numbered(df) : df \in Tables(MarineRows, MaxMarineRows)}
    /\ Fresh

Call_area_invalid_marine ==
    \E return_pid \in BOOLEAN :
        Called([func |-> "area_invalid_marine", return_pid |-> return_pid],
               area_invalid_marine(wdpa_df, return_pid))

SpecMarine == InitMarine /\ [][Call_area_invalid_marine]_vars

(***************************************************************************)
(* inconsistent_fields_same_wdpaid on tables whose records share WDPAIDs   *)
(***************************************************************************)
MaxGroupRows == 3

\* records of the sites 1 and 2 and records without WDPAID, with two names
\* or none
GroupRows ==
    {Row([WDPAID |-> w, NAME |-> v]) :
        w \in {Num(1), Num(2), Null}, v \in {Str("a"), Str("b"), Null}}

\* row i has WDPA_PID "i"; the WDPAIDs stay as drawn
InitGroup ==
    /\ wdpa_df \in {[i \in DOMAIN df |-> [df[i] EXCEPT !["WDPA_PID"] = Str(ToString(i))]] :
                        df \in Tables(GroupRows, MaxGroupRows)}
    /\ Fresh

Call_inconsistent_fields_same_wdpaid ==
    \E check_field \in {"NAME", "ORIG_NAME"}, return_pid \in BOOLEAN :
        Called([func |-> "inconsistent_fields_same_wdpaid",
                check_field |-> check_field, return_pid |-> return_pid],
               inconsistent_fields_same_wdpaid(wdpa_df, check_field, return_pid))

SpecGroup == InitGroup /\ [][Call_inconsistent_fields_same_wdpaid]_vars

(***************************************************************************)
(* forbidden_character and nan_present on tables with names that hold the  *)
(* forbidden characters and with missing values                            *)
(***************************************************************************)
MaxTextRows == 2

\* a name with each forbidden character, one without and none, under two
\* WDPA_PIDs; and the same with SUB_LOC missing
TextRows ==
    {Row([WDPA_PID |-> Str(p), NAME |-> v]) :
        p \in {"1", "2"},
        v \in {Str("a<b"), Str("a>b"), Str("a?b"), Str("a*b"), Str("a\rb"), Str("a\nb"),
               Str("Park"), Null}}
    \cup {Row([WDPA_PID |-> Str(p), NAME |-> v, SUB_LOC |-> Null]) :
            p \in {"1", "2"}, v \in {Str("a<b"), Str("Park"), Null}}

InitText ==
    /\ wdpa_df \in Tables(TextRows, MaxTextRows)
    /\ Fresh

Call_forbidden_character ==
    \E check_field \in {"NAME", "SUB_LOC"}, return_pid \in BOOLEAN :
        Called([func |-> "forbidden_character",
                check_field |-> check_field, return_pid |-> return_pid],
               forbidden_character(wdpa_df, check_field, return_pid))

Call_nan_present ==
    \E check_field \in {"NAME", "SUB_LOC"}, return_pid \in BOOLEAN :
        Called([func |-> "nan_present",
                check_field |-> check_field, return_pid |-> return_pid],
               nan_present(wdpa_df, check_field, return_pid))

SpecText == InitText /\ [][Call_forbidden_character \/ Call_nan_present]_vars

(***************************************************************************)
(* invalid_country_codes on tables of ISO3 values with one or several      *)
(* components                                                              *)
(***************************************************************************)
MaxCodeRows == 2

CodeRows ==
    {Row([ISO3 |-> Str(v)]) :
        v \in {"USA", "USA;FRA", "ABNJ", "FRA;ABNJ", "USA;FRA;ESP", "USA;XXX", "XXX;USA",
               "USA;", ";USA", "USA;;FRA", "XXX", "usa", "USA; FRA", ""}}

InitCodes ==
    /\ wdpa_df \in {Numbered(df) : df \in Tables(CodeRows, MaxCodeRows)}
    /\ Fresh

Call_invalid_country_codes ==
    \E field \in {"ISO3", "PARENT_ISO3"}, return_pid \in BOOLEAN :
        Called([func |-> "invalid_country_codes", field |-> field, return_pid |-> return_pid],
               invalid_country_codes(wdpa_df, field, return_pid))

SpecCodes == InitCodes /\ [][Call_invalid_country_codes]_vars

(***************************************************************************)
(* The checks of poly_checks on a record with one missing cell, and on a   *)
(* record with every cell missing                                          *)
(***************************************************************************)
InitNull ==
    /\ wdpa_df \in {<<[DefaultRow EXCEPT ![f] = Null]>> : f \in Range(INPUT_FIELDS_POLY)}
                   \cup {<<[f \in Range(INPUT_FIELDS_POLY) |-> Null]>>}
    /\ Fresh

SpecNull == InitNull /\ [][NextCatalog]_vars

(***************************************************************************)
(* The checks of pt_checks on tables with the columns of INPUT_FIELDS_PT   *)
(***************************************************************************)
\* one record with the fields of a point: one that passes every check, one
\* with a forbidden character and no WDPA_PID, one with several wrong values
InitPoint ==
    /\ wdpa_df \in {<<[f \in Range(INPUT_FIELDS_PT) |-> r[f]]>> :
                        r \in {DefaultRow,
                               Row([WDPA_PID |-> Null, NAME |-> Str("Lake?")]),
                               Row([STATUS |-> Str("Degazetted"), MARINE |-> Str("2"),
                                    REP_AREA |-> Num(0), ISO3 |-> Str("USA;XXX")])}}
    /\ Fresh

Call_pt_check ==
    \E k \in DOMAIN pt_checks, return_pid \in BOOLEAN :
        Called([func |-> pt_checks[k].func, name |-> pt_checks[k].name,
                return_pid |-> return_pid],
               Apply(pt_checks[k].func, wdpa_df, return_pid))

SpecPoint == InitPoint /\ [][Call_pt_check]_vars

(***************************************************************************)
(* The STATUS and STATUS_YR checks on records of every kind of designation *)
(***************************************************************************)
MaxStatusRows == 1

BarcelonaConvention ==
    Str("Specially Protected Areas of Mediterranean Importance (Barcelona Convention)")

\* years on and around the limits, stored as strings and as numbers; and
\* every STATUS under every kind of DESIG_ENG
StatusRows ==
    {Row([STATUS_YR |-> y]) :
        y \in {Str("0"), Str("1749"), Str("1750"), Str("1990"), str(year), str(year + 1),
               Str("Not Reported"), Null,
               Num(0), Num(1749), Num(1750), Num(1990), Num(year), Num(year + 1)}}
    \cup {Row([STATUS |-> s, DESIG_ENG |-> d]) :
            s \in {Str("Proposed"), Str("Designated"), Str("Established"), Str("Inscribed"),
                   Str("Adopted"), Str("Degazetted"), Null},
            d \in {WorldHeritage, BarcelonaConvention, Str("National Park"), Null}}

InitStatus ==
    /\ wdpa_df \in {Numbered(df) : df \in Tables(StatusRows, MaxStatusRows)}
    /\ Fresh

Call_status_check ==
    \E func \in {"invalid_status", "invalid_status_WH", "invalid_status_Barca",
                 "invalid_status_yr"}, return_pid \in BOOLEAN :
        Called([func |-> func, return_pid |-> return_pid], Apply(func, wdpa_df, return_pid))

SpecStatus == InitStatus /\ [][Call_status_check]_vars

(***************************************************************************)
(* Properties                                                              *)
(***************************************************************************)
\* the rows of the table whose cell in a field holds the value v
RowsWith(field, v) == {i \in Index(wdpa_df) : wdpa_df[i][field] = v}

\* the returned value is the one the selected rows give: their WDPA_PIDs in
\* row order, or whether there is any selected row
ReturnsSelected ==
    IF call.return_pid
    THEN ret = Pids(Values(wdpa_df, selected, "WDPA_PID"))
    ELSE ret = Bool(selected # {})

\* C1: evaluating a rule of the polygon catalog, in either mode, leaves the
\* table as it was: the same columns and the same value in every cell.  In
\* particular area_invalid_marine adds no column and overwrites none.
C1_DatasetUnchanged == [][wdpa_df' = wdpa_df]_vars

\* every rule of the polygon catalog, in either mode, returns on the table
\* after what it returns on the table before
SameOutcomes(before, after) ==
    \A k \in DOMAIN poly_checks, return_pid \in BOOLEAN :
        Apply(poly_checks[k].func, after, return_pid).ret
            = Apply(poly_checks[k].func, before, return_pid).ret

\* C2: for every two rules R1 and R2 of the polygon catalog the outcome of
\* R2 is the same on the table before R1 is evaluated and on the table
\* after it, forbidden_character_* after area_invalid_marine included.  (On
\* a table that R1 left equal there is nothing to compare.)
C2_OrderIndependent ==
    [][wdpa_df' = wdpa_df \/ SameOutcomes(wdpa_df, wdpa_df')]_vars

\* C3: for every rule of the catalog the boolean-mode result is True if and
\* only if the identifier-mode result on the same table is non-empty, for
\* duplicate_wdpa_pid also when a WDPA_PID is missing.
C3_BooleanIffIdentifiers ==
    [][(call'.func # "none" /\ ~call'.return_pid /\ ret'.t = "bool")
        => /\ Apply(call'.func, wdpa_df, TRUE).ret.t = "pids"
           /\ ret'.b <=> (Apply(call'.func, wdpa_df, TRUE).ret.v # <<>>)]_vars

\* C4: in identifier mode duplicate_wdpa_pid returns exactly the WDPA_PID
\* values that are on more than one row, each of them once: nothing when all
\* identifiers are unique, and the one value when exactly one value is there
\* three times.
C4_DuplicatedValuesOnce ==
    (call.func = "duplicate_wdpa_pid" /\ call.return_pid) =>
        /\ ret.t = "pids"
        /\ Range(ret.v) = {wdpa_df[i]["WDPA_PID"] : i \in
                             {j \in Index(wdpa_df) :
                                Cardinality(RowsWith("WDPA_PID", wdpa_df[j]["WDPA_PID"])) > 1}}
        /\ Cardinality(Range(ret.v)) = Len(ret.v)
        /\ (\A i \in Index(wdpa_df) :
               Cardinality(RowsWith("WDPA_PID", wdpa_df[i]["WDPA_PID"])) = 1) => ret.v = <<>>
        /\ \A i \in Index(wdpa_df) :
               (/\ Cardinality(RowsWith("WDPA_PID", wdpa_df[i]["WDPA_PID"])) = 3
                /\ \A j \in Index(wdpa_df) \ RowsWith("WDPA_PID", wdpa_df[i]["WDPA_PID"]) :
                      Cardinality(RowsWith("WDPA_PID", wdpa_df[j]["WDPA_PID"])) = 1)
               => ret.v = <<wdpa_df[i]["WDPA_PID"]>>

\* one identifier is on three rows, another on one row, and the call returned
\* the repeated identifier alone
C4_Witness ==
    /\ call.func = "duplicate_wdpa_pid" /\ call.return_pid
    /\ Len(wdpa_df) = 4
    /\ Cardinality(RowsWith("WDPA_PID", Str("2"))) = 3
    /\ Cardinality(RowsWith("WDPA_PID", Str("1"))) = 1
    /\ ret = Pids(<<Str("2")>>)

\* the call is one of a membership factory function with a condition given
ConditionalCall(func) ==
    /\ call.func = func
    /\ call.condition_field # ""
    /\ call.condition_crit # {}

\* C5: with a condition, invalid_value_in_field flags a record iff its target
\* value is not in the allowed list and its condition value is in the
\* condition list; a null target value is not in the allowed list, and a
\* record with a null condition value is never flagged.
C5_ConditionalMembership ==
    ConditionalCall("invalid_value_in_field") =>
        /\ \A i \in Index(wdpa_df) :
              i \in selected <=>
                 /\ wdpa_df[i][call.field] \notin call.field_allowed_values
                 /\ wdpa_df[i][call.condition_field] \in call.condition_crit
        /\ \A i \in Index(wdpa_df) :
              (IsNull(wdpa_df[i][call.field])
                 /\ wdpa_df[i][call.condition_field] \in call.condition_crit) => i \in selected
        /\ \A i \in Index(wdpa_df) :
              IsNull(wdpa_df[i][call.condition_field]) => i \notin selected
        /\ ReturnsSelected

\* a record with a null STATUS whose condition holds was flagged, next to a
\* record with an invalid STATUS and a null DESIG_ENG that was not
C5_Witness ==
    /\ ConditionalCall("invalid_value_in_field")
    /\ call.return_pid
    /\ Len(wdpa_df) = 2
    /\ IsNull(wdpa_df[1]["STATUS"]) /\ wdpa_df[1]["DESIG_ENG"] = WorldHeritage
    /\ wdpa_df[2]["STATUS"] = Str("Inscribed") /\ IsNull(wdpa_df[2]["DESIG_ENG"])
    /\ call.field_allowed_values = {Str("Proposed")}
    /\ ret = Pids(<<Str("1")>>)

\* the two calls of a step have the same arguments but for the function
SameArguments ==
    /\ call'.field = call.field
    /\ call'.field_allowed_values = call.field_allowed_values
    /\ call'.condition_field = call.condition_field
    /\ call'.condition_crit = call.condition_crit

\* C6: with a condition, invalid_value_in_field_isnot flags a record iff its
\* target value is not in the allowed list and its condition value is not in
\* the condition list; called after invalid_value_in_field with the same
\* arguments it selects none of the records that call selected, and the two
\* selections together are the selection of the check without a condition.
C6_IsNotComplementsIs ==
    [][ConditionalCall("invalid_value_in_field_isnot")' =>
          /\ \A i \in Index(wdpa_df') :
                i \in selected' <=>
                   /\ wdpa_df'[i][call'.field] \notin call'.field_allowed_values
                   /\ wdpa_df'[i][call'.condition_field] \notin call'.condition_crit
          /\ ReturnsSelected'
          /\ (call.func = "invalid_value_in_field" /\ SameArguments) =>
                /\ selected \cap selected' = {}
                /\ selected \cup selected' =
                      invalid_value_in_field(wdpa_df, call.field, call.field_allowed_values,
                                             "", {}, TRUE).selected]_vars

\* invalid_value_in_field_isnot flagged a record (one with a null condition
\* value) and left out a record invalid_value_in_field selects
C6_Witness ==
    /\ ConditionalCall("invalid_value_in_field_isnot")
    /\ Len(wdpa_df) = 2
    /\ 1 \in selected /\ IsNull(wdpa_df[1]["DESIG_ENG"])
    /\ 2 \notin selected
    /\ 2 \in invalid_value_in_field(wdpa_df, call.field, call.field_allowed_values,
                                    call.condition_field, call.condition_crit, TRUE).selected

\* C7: the membership checks are antitone in the allowed list: a call with a
\* larger allowed list (all else equal) selects a subset of what the call
\* with the smaller list selected, and no selected record has a target value
\* in the allowed list of its call.
C7_AllowedSetMonotone ==
    [][(/\ call'.func \in {"invalid_value_in_field", "invalid_value_in_field_isnot"}) =>
          /\ \A i \in selected' : wdpa_df'[i][call'.field] \notin call'.field_allowed_values
          /\ (/\ call.func = call'.func
              /\ call'.field = call.field
              /\ call'.condition_field = call.condition_field
              /\ call'.condition_crit = call.condition_crit
              /\ call.field_allowed_values \subseteq call'.field_allowed_values)
             => selected' \subseteq selected]_vars

\* a call with the two-value allowed list that still flags a record (null
\* STATUS) and clears a record whose STATUS is in the list
C7_Witness ==
    /\ call.func \in {"invalid_value_in_field", "invalid_value_in_field_isnot"}
    /\ call.field_allowed_values = {Str("Proposed"), Str("Inscribed")}
    /\ Len(wdpa_df) = 2
    /\ selected = {1}
    /\ wdpa_df[2]["STATUS"] = Str("Inscribed")

\* the call is one of area_invalid_size with both fields named
SizeCall ==
    /\ call.func = "area_invalid_size"
    /\ call.field_small_area # ""
    /\ call.field_large_area # ""

\* C8: area_invalid_size flags a record iff smaller > 1.0001 x larger:
\* smaller = 1.0002 x larger is flagged, smaller = 1.00005 x larger is not
\* (larger > 0), and a record with a null in either field is not flagged.
C8_SizeThreshold ==
    SizeCall =>
        /\ \A i \in Index(wdpa_df) :
              LET small == wdpa_df[i][call.field_small_area]
                  large == wdpa_df[i][call.field_large_area]
              IN  /\ (IsNull(small) \/ IsNull(large)) => i \notin selected
                  /\ (IsNum(small) /\ IsNum(large)) =>
                        /\ i \in selected <=> 10000 * small.n > 10001 * large.n
                        /\ (large.n > 0 /\ 10000 * small.n = 10002 * large.n) => i \in selected
                        /\ (large.n > 0 /\ 100000 * small.n = 100005 * large.n) => i \notin selected
        /\ ReturnsSelected

\* a record with smaller = 1.0002 x larger was flagged and a record with
\* smaller = 1.00005 x larger was not
C8_Witness ==
    /\ SizeCall
    /\ call.return_pid
    /\ call.field_small_area = "NO_TK_AREA" /\ call.field_large_area = "REP_M_AREA"
    /\ Len(wdpa_df) = 2
    /\ wdpa_df[1]["NO_TK_AREA"] = Num(20004) /\ wdpa_df[1]["REP_M_AREA"] = Num(20000)
    /\ wdpa_df[2]["NO_TK_AREA"] = Num(20001) /\ wdpa_df[2]["REP_M_AREA"] = Num(20000)
    /\ ret = Pids(<<Str("1")>>)

\* C9: area_invalid_size never flags a record whose two values are equal,
\* whether they are zero, positive or negative.
C9_EqualNeverFlagged ==
    SizeCall =>
        \A i \in Index(wdpa_df) :
            (/\ IsNum(wdpa_df[i][call.field_small_area])
             /\ wdpa_df[i][call.field_small_area] = wdpa_df[i][call.field_large_area])
            => i \notin selected

\* the fields of the ratio r = (A + B) / den of each statistical check
RatioFields(func) ==
    CASE func = "area_invalid_too_large_gis" -> <<"REP_AREA", "GIS_AREA", "REP_AREA">>
      [] func = "area_invalid_too_large_rep" -> <<"REP_AREA", "GIS_AREA", "GIS_AREA">>
      [] func = "area_invalid_too_large_gis_m" -> <<"REP_M_AREA", "GIS_M_AREA", "REP_M_AREA">>
      [] func = "area_invalid_too_large_rep_m" -> <<"REP_M_AREA", "GIS_M_AREA", "GIS_M_AREA">>

StatisticalCall == call.func \in {"area_invalid_too_large_gis", "area_invalid_too_large_rep",
                                  "area_invalid_too_large_gis_m", "area_invalid_too_large_rep_m"}

\* the ratio of record i under the check that was called
Ratio(i) ==
    LET f == RatioFields(call.func)
    IN  Div(Add(wdpa_df[i][f[1]], wdpa_df[i][f[2]]), wdpa_df[i][f[3]])

\* the ratios that are not outliers: 0 <= r <= 100
InRangeRatios ==
    LET inside == {i \in Index(wdpa_df) : GE(Ratio(i), Num(0)) /\ LE(Ratio(i), Num(100))}
    IN  [k \in 1..Cardinality(inside) |->
            Ratio(CHOOSE i \in inside : Cardinality({j \in inside : j < i}) = k - 1)]

\* |A - B| > 50 for record i, on the integer cells of the tables
DifferenceOver50(i) ==
    LET f == RatioFields(call.func)
        a == wdpa_df[i][f[1]]
        b == wdpa_df[i][f[2]]
    IN  IsNum(a) /\ IsNum(b) /\ (a.n - b.n > 50 \/ b.n - a.n > 50)

\* C10: a statistical check flags a record iff its ratio r, taken over all
\* records, is greater than mean + 2 x sample stdev of the ratios with
\* 0 <= r <= 100 and |A - B| > 50; an outlier (r > 100 or r < 0) is left out
\* of mean and stdev but can be flagged, and no record with |A - B| <= 50 is.
C10_StatisticalFlagging ==
    StatisticalCall =>
        /\ \A i \in Index(wdpa_df) :
              i \in selected <=>
                 /\ greater_than_max(Ratio(i), mean_plus_2std(InRangeRatios))
                 /\ DifferenceOver50(i)
        /\ \A i \in selected : DifferenceOver50(i)
        /\ ReturnsSelected

\* five records with equal areas, then a record whose ratio 3 is above the
\* threshold but whose areas differ by 1, then an outlier (ratio 121, areas
\* 119 apart): only the outlier was flagged
C10_Witness ==
    /\ call.func = "area_invalid_too_large_gis" /\ call.return_pid
    /\ Len(wdpa_df) = 7
    /\ wdpa_df[6]["REP_AREA"] = Num(1) /\ wdpa_df[6]["GIS_AREA"] = Num(2)
    /\ greater_than_max(Ratio(6), mean_plus_2std(InRangeRatios))
    /\ wdpa_df[7]["REP_AREA"] = Num(1) /\ wdpa_df[7]["GIS_AREA"] = Num(120)
    /\ GT(Ratio(7), Num(100))
    /\ ret = Pids(<<Str("7")>>)

\* every record has A = B in the two fields the called check compares, both
\* missing included
AllAreasEqual ==
    \A i \in Index(wdpa_df) :
        wdpa_df[i][RatioFields(call.func)[1]] = wdpa_df[i][RatioFields(call.func)[2]]

\* C11: on a table in which every record has A = B for the two compared
\* fields (both 0 and both missing included) each of the four statistical
\* checks returns an empty offending set.
C11_EqualAreasNoFlags ==
    (StatisticalCall /\ AllAreasEqual) =>
        /\ selected = {}
        /\ ret = IF call.return_pid THEN Pids(<<>>) ELSE Bool(FALSE)

\* a check was called on three records with equal areas: both missing,
\* both 0 and both 1000
C11_Witness ==
    /\ StatisticalCall /\ AllAreasEqual /\ call.return_pid
    /\ {wdpa_df[i]["REP_AREA"] : i \in Index(wdpa_df)} = {Null, Num(0), Num(1000)}
    /\ ret = Pids(<<>>)

\* the table is 100 records with A = B and then one record with A = a and
\* B = b, A and B being the reported and the GIS field the called check reads
HundredEqualAndOne(a, b) ==
    LET A == RatioFields(call.func)[1]
        B == RatioFields(call.func)[2]
    IN  /\ Len(wdpa_df) = 101
        /\ \A i \in 1..100 : IsNum(wdpa_df[i][A]) /\ wdpa_df[i][A] = wdpa_df[i][B]
        /\ wdpa_df[101][A] = a
        /\ wdpa_df[101][B] = b

\* the called check divides by A, the reported field: r = (A + B) / A
RatioOverA == RatioFields(call.func)[3] = RatioFields(call.func)[1]

DefinedRatio(func, row) ==
    /\ IsNum(row[RatioFields(func)[1]])
    /\ IsNum(row[RatioFields(func)[2]])
    /\ row[RatioFields(func)[3]] # Num(0)

\* max_ratio of the check func on a table: mean + 2 x stdev of its ratios
\* without the outliers
MaxRatio(func, df) ==
    mean_plus_2std([i \in Index(df) |->
        without_outlier(Div(Add(df[i][RatioFields(func)[1]], df[i][RatioFields(func)[2]]),
                            df[i][RatioFields(func)[3]]))])

\* the table without the records whose ratio is undefined
DefinedOnly(func, df) == SelectSeq(df, LAMBDA row : DefinedRatio(func, row))

\* C13: in every statistical check a record whose ratio is undefined (a
\* missing area or a zero denominator) adds nothing to the mean and stdev
\* behind max_ratio: without all such records max_ratio is the same and so
\* is the flag of every record that stays.  Such a record with both areas
\* there is not dropped: it is flagged only with |A - B| > 50, and with a
\* zero denominator under a positive sum (and max_ratio defined) exactly
\* when |A - B| > 50.
C13_UndefinedRatiosOutsideStatistics ==
    StatisticalCall =>
        /\ MaxRatio(call.func, DefinedOnly(call.func, wdpa_df)) = MaxRatio(call.func, wdpa_df)
        /\ \A i \in Index(wdpa_df) :
              DefinedRatio(call.func, wdpa_df[i])
              => (i \in selected
                    <=> wdpa_df[i]["WDPA_PID"]
                           \in Range(Apply(call.func, DefinedOnly(call.func, wdpa_df), TRUE).ret.v))
        /\ \A i \in Index(wdpa_df) :
              (/\ ~DefinedRatio(call.func, wdpa_df[i])
               /\ i \in selected) => DifferenceOver50(i)
        /\ \A i \in Index(wdpa_df) :
              (/\ Ratio(i) = Inf(1)
               /\ ~IsNull(MaxRatio(call.func, wdpa_df)))
              => (i \in selected <=> DifferenceOver50(i))

\* five records with equal areas, a record with REP_AREA = 0 next to
\* GIS_AREA = 60 and an outlier: the record with the zero denominator is
\* flagged and so is the outlier, with or without it
C13_Witness ==
    /\ call.func = "area_invalid_too_large_gis" /\ call.return_pid
    /\ \E i, j \in Index(wdpa_df) :
          /\ wdpa_df[i]["REP_AREA"] = Num(0) /\ wdpa_df[i]["GIS_AREA"] = Num(60)
          /\ DefinedRatio(call.func, wdpa_df[j])
          /\ selected = {i, j}
          /\ Len(DefinedOnly(call.func, wdpa_df)) = Len(wdpa_df) - 1
          /\ ~IsNull(MaxRatio(call.func, wdpa_df))

\* the table with the values of REP_AREA and GIS_AREA exchanged
Exchanged(df) ==
    [i \in Index(df) |-> [df[i] EXCEPT !["REP_AREA"] = df[i]["GIS_AREA"],
                                       !["GIS_AREA"] = df[i]["REP_AREA"]]]

\* the table with REP_M_AREA, GIS_M_AREA put in place of REP_AREA, GIS_AREA
MarineInPlace(df) ==
    [i \in Index(df) |-> [df[i] EXCEPT !["REP_AREA"] = df[i]["REP_M_AREA"],
                                       !["GIS_AREA"] = df[i]["GIS_M_AREA"]]]

\* C14: the four statistical checks are one rule: area_invalid_too_large_rep
\* returns what area_invalid_too_large_gis returns on the table with
\* REP_AREA and GIS_AREA exchanged, and area_invalid_too_large_gis_m and
\* area_invalid_too_large_rep_m return what area_invalid_too_large_gis and
\* area_invalid_too_large_rep return on the table with the marine pair put
\* in place of REP_AREA, GIS_AREA.
C14_OneRuleFourTimes ==
    /\ call.func = "area_invalid_too_large_rep"
          => ret = area_invalid_too_large_gis(Exchanged(wdpa_df), call.return_pid).ret
    /\ call.func = "area_invalid_too_large_gis_m"
          => ret = area_invalid_too_large_gis(MarineInPlace(wdpa_df), call.return_pid).ret
    /\ call.func = "area_invalid_too_large_rep_m"
          => ret = area_invalid_too_large_rep(MarineInPlace(wdpa_df), call.return_pid).ret

\* area_invalid_too_large_gis_m flagged a record that area_invalid_too_large_gis
\* does not flag on the same table, and area_invalid_too_large_rep does
C14_Witness ==
    /\ call.func = "area_invalid_too_large_gis_m" /\ call.return_pid
    /\ ret.v # <<>>
    /\ area_invalid_too_large_gis(wdpa_df, TRUE).ret.v = <<>>
    /\ area_invalid_too_large_rep(wdpa_df, TRUE).ret = ret

\* the sign of m/g - p/q for integers with g # 0 and q > 0
RatioCmp(m, g, p, q) == SignInt((m * q - p * g) * SignInt(g))

\* record i has both GIS areas and GIS_AREA is not zero (integer cells)
MarineRatioDefined(i) ==
    /\ IsNum(wdpa_df[i]["GIS_M_AREA"])
    /\ IsNum(wdpa_df[i]["GIS_AREA"])
    /\ wdpa_df[i]["GIS_AREA"].n # 0

\* the sign of GIS_M_AREA / GIS_AREA - p/q for record i
MarineRatioCmp(i, p, q) ==
    RatioCmp(wdpa_df[i]["GIS_M_AREA"].n, wdpa_df[i]["GIS_AREA"].n, p, q)

\* C15: the band area_invalid_marine derives from ratio = GIS_M_AREA /
\* GIS_AREA is 0 when ratio <= 0.1, 1 when 0.1 < ratio < 0.9 and 2 when
\* ratio >= 0.9; every defined ratio is in exactly one band; ratio 0.1 gives
\* band 0, ratio 0.10001 band 1 and ratio 0.9 band 2.
C15_MarineBands ==
    call.func = "area_invalid_marine" =>
        \A i \in Index(wdpa_df) :
            MarineRatioDefined(i) =>
                /\ wdpa_df[i]["marine_GIS_value"] \in {Str("0"), Str("1"), Str("2")}
                /\ wdpa_df[i]["marine_GIS_value"] = Str("0") <=> MarineRatioCmp(i, 1, 10) <= 0
                /\ wdpa_df[i]["marine_GIS_value"] = Str("1")
                      <=> (MarineRatioCmp(i, 1, 10) > 0 /\ MarineRatioCmp(i, 9, 10) < 0)
                /\ wdpa_df[i]["marine_GIS_value"] = Str("2") <=> MarineRatioCmp(i, 9, 10) >= 0
                /\ MarineRatioCmp(i, 1, 10) = 0 => wdpa_df[i]["marine_GIS_value"] = Str("0")
                /\ MarineRatioCmp(i, 10001, 100000) = 0 => wdpa_df[i]["marine_GIS_value"] = Str("1")
                /\ MarineRatioCmp(i, 9, 10) = 0 => wdpa_df[i]["marine_GIS_value"] = Str("2")

\* a record with the ratio 0.1 got band 0 next to one with 0.10001 and band 1
C15_Witness ==
    /\ call.func = "area_invalid_marine"
    /\ Len(wdpa_df) = 2
    /\ MarineRatioDefined(1) /\ MarineRatioCmp(1, 1, 10) = 0
    /\ wdpa_df[1]["marine_GIS_value"] = Str("0")
    /\ MarineRatioDefined(2) /\ MarineRatioCmp(2, 10001, 100000) = 0
    /\ wdpa_df[2]["marine_GIS_value"] = Str("1")

\* the band of record i by the limits 0.1 and 0.9, "none" when the ratio is
\* NaN (an area missing, or 0/0); x/0 is +inf or -inf (integer cells)
DerivedBand(i) ==
    IF ~IsNum(wdpa_df[i]["GIS_M_AREA"]) \/ ~IsNum(wdpa_df[i]["GIS_AREA"]) THEN "none"
    ELSE IF wdpa_df[i]["GIS_AREA"].n = 0
         THEN IF wdpa_df[i]["GIS_M_AREA"].n > 0 THEN "2"
              ELSE IF wdpa_df[i]["GIS_M_AREA"].n < 0 THEN "0" ELSE "none"
    ELSE IF MarineRatioCmp(i, 1, 10) <= 0 THEN "0"
    ELSE IF MarineRatioCmp(i, 9, 10) >= 0 THEN "2"
    ELSE "1"

\* the declared MARINE of record i is the derived band
DeclaredIsDerived(i) == wdpa_df[i]["MARINE"] = Str(DerivedBand(i))

\* C16: area_invalid_marine flags a record iff the band derived from its GIS
\* areas differs from its declared MARINE: a record whose MARINE ('0', '1',
\* '2') is the derived band is not flagged, every other record is.
C16_FlaggedIffBandDiffers ==
    call.func = "area_invalid_marine" =>
        selected = {i \in Index(wdpa_df) : ~DeclaredIsDerived(i)}

\* of two records with the ratio 0.5, the one declared '1' is not flagged and
\* the one declared '2' is
C16_Witness ==
    /\ call.func = "area_invalid_marine"
    /\ Len(wdpa_df) = 2
    /\ DerivedBand(1) = "1" /\ wdpa_df[1]["MARINE"] = Str("1")
    /\ DerivedBand(2) = "1" /\ wdpa_df[2]["MARINE"] = Str("2")
    /\ selected = {2}

\* the records that share the WDPAID of record i (none when it has no WDPAID)
SameWdpaid(i) ==
    {j \in Index(wdpa_df) :
        /\ ~IsNull(wdpa_df[i]["WDPAID"])
        /\ wdpa_df[j]["WDPAID"] = wdpa_df[i]["WDPAID"]}

\* the non-null values of the field among the records of the group of i
GroupValues(i, field) == {wdpa_df[j][field] : j \in SameWdpaid(i)} \ {Null}

\* C17: inconsistent_fields_same_wdpaid flags a record iff the records that
\* share its WDPAID hold more than one distinct non-null value in the checked
\* field; then every record of the group is flagged, also those whose own
\* value is null. Identical values, or null against one value, flag nothing.
C17_GroupFlaggedIffValuesDiffer ==
    call.func = "inconsistent_fields_same_wdpaid" =>
        IF call.return_pid
        THEN /\ selected = {i \in Index(wdpa_df) :
                                Cardinality(GroupValues(i, call.check_field)) > 1}
             /\ \A i \in selected : SameWdpaid(i) \subseteq selected
        ELSE ret = Bool(\E i \in Index(wdpa_df) :
                                Cardinality(GroupValues(i, call.check_field)) > 1)

\* a group with the names a, b and none is flagged with its three records
C17_Witness ==
    /\ call.func = "inconsistent_fields_same_wdpaid"
    /\ call.check_field = "NAME"
    /\ call.return_pid
    /\ Len(wdpa_df) = 3
    /\ SameWdpaid(1) = {1, 2, 3}
    /\ wdpa_df[1]["NAME"] = Str("a")
    /\ wdpa_df[2]["NAME"] = Str("b")
    /\ wdpa_df[3]["NAME"] = Null
    /\ selected = {1, 2, 3}

\* the value of the field in record i is a string with a forbidden character
HasForbiddenCharacter(i, field) ==
    /\ IsStr(wdpa_df[i][field])
    /\ \E c \in {"<", ">", "?", "*", "\r", "\n"} :
           \E k \in 1..Len(wdpa_df[i][field].s) : SubSeq(wdpa_df[i][field].s, k, k) = c

\* C18: forbidden_character flags a record iff its value in the target field
\* is non-null and contains one of '<', '>', '?', '*', carriage return, line
\* feed, whatever the values (null or not) of its other fields.
C18_FlaggedIffForbiddenCharacter ==
    call.func = "forbidden_character" =>
        /\ selected = {i \in Index(wdpa_df) : HasForbiddenCharacter(i, call.check_field)}
        /\ ret = IF call.return_pid
                 THEN Pids(Values(wdpa_df, selected, "WDPA_PID"))
                 ELSE Bool(selected # {})

\* C19: nan_present flags exactly the records whose value in the field is
\* missing, one entry per such row, and for the same field no record is
\* flagged by both nan_present and forbidden_character.
C19_NullRowsOnly ==
    call.func = "nan_present" =>
        /\ selected = {i \in Index(wdpa_df) : IsNull(wdpa_df[i][call.check_field])}
        /\ call.return_pid =>
              /\ ret = Pids(Values(wdpa_df, selected, "WDPA_PID"))
              /\ Len(ret.v) = Cardinality(selected)
        /\ selected \cap forbidden_character(wdpa_df, call.check_field, TRUE).selected = {}

\* two rows of one WDPA_PID without NAME give two entries, next to no flag of
\* forbidden_character
C19_Witness ==
    /\ call.func = "nan_present"
    /\ call.check_field = "NAME"
    /\ call.return_pid
    /\ Len(wdpa_df) = 2
    /\ wdpa_df[1]["WDPA_PID"] = wdpa_df[2]["WDPA_PID"]
    /\ selected = {1, 2}
    /\ Len(ret.v) = 2

\* the most codes joined into one value
MaxCodes == 3

\* the codes of a sequence joined with ';'
RECURSIVE JoinCodes(_)
JoinCodes(codes) ==
    IF Len(codes) = 1 THEN codes[1]
    ELSE codes[1] \o ";" \o JoinCodes(Tail(codes))

\* the values all of whose components are in the reference set
ValidCodeValues == {JoinCodes(codes) : codes \in UNION {[1..n -> iso3] : n \in 1..MaxCodes}}

\* C20: invalid_country_codes flags a record iff a component of its value,
\* split on ';', is not in the reference set (the ISO alpha-3 codes and
\* 'ABNJ'): 'USA', 'USA;FRA' and 'ABNJ' are not flagged, 'USA;XXX' is, and so
\* is a value with an empty component such as 'USA;'.
C20_FlaggedIffComponentUnknown ==
    call.func = "invalid_country_codes" =>
        /\ selected = {i \in Index(wdpa_df) : wdpa_df[i][call.field].s \notin ValidCodeValues}
        /\ \A i \in Index(wdpa_df) :
              /\ wdpa_df[i][call.field].s \in {"USA", "USA;FRA", "ABNJ"} => i \notin selected
              /\ wdpa_df[i][call.field].s \in {"USA;XXX", "USA;"} => i \in selected
        /\ ret = IF call.return_pid
                 THEN Pids(Values(wdpa_df, selected, "WDPA_PID"))
                 ELSE Bool(selected # {})

\* 'USA;FRA' passes next to 'USA;', which is flagged
C20_Witness ==
    /\ call.func = "invalid_country_codes"
    /\ call.field = "ISO3"
    /\ call.return_pid
    /\ Len(wdpa_df) = 2
    /\ wdpa_df[1]["ISO3"] = Str("USA;FRA")
    /\ wdpa_df[2]["ISO3"] = Str("USA;")
    /\ selected = {2}
    /\ ret = Pids(<<Str("2")>>)

\* C21: no check of the catalog ends in an error because a field value is
\* missing: on every table with missing cells every check returns a boolean
\* or a list of WDPA_PIDs, invalid_parent_iso3 and invalid_iso3 included.
C21_NullNeverRaises ==
    call.func # "none" => ret.t \in {"bool", "pids"}

\* C22: pt_checks is exactly the core list and poly_checks is exactly the
\* core list followed by the area list, every (name, func) binding and the
\* order of each list kept; pt_checks is a prefix of poly_checks.
C22_CatalogsResolved ==
    /\ Len(pt_checks) = Len(core_checks)
    /\ \A k \in DOMAIN core_checks : pt_checks[k] = core_checks[k]
    /\ Len(poly_checks) = Len(core_checks) + Len(area_checks)
    /\ \A k \in DOMAIN core_checks : poly_checks[k] = core_checks[k]
    /\ \A k \in DOMAIN area_checks : poly_checks[Len(core_checks) + k] = area_checks[k]
    /\ SubSeq(poly_checks, 1, Len(pt_checks)) = pt_checks
    /\ call.func # "none" =>
          \E k \in DOMAIN poly_checks :
              /\ call.name = poly_checks[k].name
              /\ call.func = poly_checks[k].func
              /\ k <= Len(core_checks) <=> [name |-> call.name, func |-> call.func] \in Range(pt_checks)

\* the first check after the core list has run: it is the first of the area
\* list and no check of pt_checks
C22_Witness ==
    /\ call.func = "area_invalid_too_large_gis"
    /\ call.name = poly_checks[Len(core_checks) + 1].name
    /\ call.name = area_checks[1].name
    /\ \A k \in DOMAIN pt_checks : pt_checks[k].name # call.name

\* the fields of the polygon schema that a point does not have
GisFields == {"GIS_AREA", "GIS_M_AREA"}

\* C23: no check of pt_checks reads a field that INPUT_FIELDS_PT lacks
\* (GIS_AREA, GIS_M_AREA), every field a check of poly_checks reads is in
\* INPUT_FIELDS_POLY, and INPUT_FIELDS_PT is INPUT_FIELDS_POLY without exactly
\* those two fields.
C23_ChecksReadSchemaFields ==
    /\ \A k \in DOMAIN pt_checks :
          /\ fields_read[pt_checks[k].func] \subseteq Range(INPUT_FIELDS_PT)
          /\ fields_read[pt_checks[k].func] \cap GisFields = {}
    /\ \A k \in DOMAIN poly_checks :
          fields_read[poly_checks[k].func] \subseteq Range(INPUT_FIELDS_POLY)
    /\ GisFields \subseteq Range(INPUT_FIELDS_POLY)
    /\ INPUT_FIELDS_PT = SelectSeq(INPUT_FIELDS_POLY, LAMBDA f : f \notin GisFields)
    /\ call.func # "none" =>
          /\ fields_read[call.func] \subseteq DOMAIN wdpa_df[1]
          /\ ret.t \in {"bool", "pids"}

\* a check that reads REP_AREA has flagged a record that has no GIS_AREA
C23_Witness ==
    /\ call.func = "area_invalid_rep_area"
    /\ call.return_pid
    /\ "GIS_AREA" \notin DOMAIN wdpa_df[1]
    /\ "REP_AREA" \in fields_read[call.func]
    /\ selected = {1}

\* C24: a check configured without a required parameter (area_invalid_size
\* with an empty field name) is rejected before any table is evaluated: no
\* evaluation of a check on a table ends in the configuration error.
C24_NoConfigurationErrorAtEvaluation ==
    call.func = "area_invalid_size" =>
        ret # Raised("ERROR: field(s) to test is (are) not specified")

\* the value is 0 or a year of 1750..year, as a number or as its string form
ValidStatusYr(v) ==
    \/ IsNum(v) /\ v.d = 1 /\ (v.n = 0 \/ v.n \in 1750..year)
    \/ IsStr(v) /\ \E x \in {0} \cup 1750..year : v.s = ToString(x)

\* C25: invalid_status_yr is the numeric range check: a record is not flagged
\* iff its STATUS_YR is 0 or lies in 1750..current year, whether it is stored
\* as the number or as its string form; every other value, and null, is
\* flagged.
C25_StatusYrRange ==
    call.func = "invalid_status_yr" =>
        selected = {i \in Index(wdpa_df) : ~ValidStatusYr(wdpa_df[i]["STATUS_YR"])}

\* the call is one of a membership check with one half of a condition only
HalfConditionCall ==
    /\ call.func \in {"invalid_value_in_field", "invalid_value_in_field_isnot"}
    /\ \/ call.condition_field # "" /\ call.condition_crit = {}
       \/ call.condition_field = "" /\ call.condition_crit # {}

\* C26: given one half of a condition only (a condition field with an empty
\* condition list, or a condition list with an empty field name),
\* invalid_value_in_field and invalid_value_in_field_isnot check every record
\* as if no condition had been given; they do not raise.
C26_HalfConditionIsNoCondition ==
    HalfConditionCall =>
        /\ selected = {i \in Index(wdpa_df) :
                          wdpa_df[i][call.field] \notin call.field_allowed_values}
        /\ ret.t \in {"bool", "pids"}
        /\ ReturnsSelected
        /\ ret = IF call.func = "invalid_value_in_field"
                 THEN invalid_value_in_field(wdpa_df, call.field, call.field_allowed_values,
                                             "", {}, call.return_pid).ret
                 ELSE invalid_value_in_field_isnot(wdpa_df, call.field,
                                                   call.field_allowed_values,
                                                   "", {}, call.return_pid).ret

\* with DESIG_ENG named and no condition value, a record of another
\* designation is flagged next to one that passes
C26_Witness ==
    /\ HalfConditionCall
    /\ call.func = "invalid_value_in_field"
    /\ call.condition_field = "DESIG_ENG"
    /\ call.return_pid
    /\ Len(wdpa_df) = 2
    /\ wdpa_df[1]["DESIG_ENG"] = Str("National Park")
    /\ selected = {1}

StatusChecks == {"invalid_status", "invalid_status_WH", "invalid_status_Barca"}

\* the check that tests the STATUS of a record, by its DESIG_ENG
StatusCheckOf(row) ==
    IF row["DESIG_ENG"] = Str("World Heritage Site (natural or mixed)")
    THEN "invalid_status_WH"
    ELSE IF row["DESIG_ENG"] =
            Str("Specially Protected Areas of Mediterranean Importance (Barcelona Convention)")
    THEN "invalid_status_Barca"
    ELSE "invalid_status"

\* the STATUS values each check allows
StatusAllowed(func) ==
    IF func = "invalid_status_WH" THEN {Str("Proposed"), Str("Inscribed")}
    ELSE IF func = "invalid_status_Barca" THEN {Str("Proposed"), Str("Adopted")}
    ELSE {Str("Proposed"), Str("Designated"), Str("Established")}

CollectedNames(checks) == {checks[k].name : k \in DOMAIN checks}

\* C28: the names of poly_checks (the core list, then the area list) are
\* pairwise distinct, so outcomes collected by name over poly_checks or
\* pt_checks have one entry for each entry of the list and none is
\* overwritten.
C28_NamesDistinct ==
    /\ \A j, k \in DOMAIN poly_checks : j # k => poly_checks[j].name # poly_checks[k].name
    /\ Cardinality(CollectedNames(poly_checks)) = Len(poly_checks)
    /\ Cardinality(CollectedNames(pt_checks)) = Len(pt_checks)
    /\ call.func # "none" =>
          Cardinality({k \in DOMAIN poly_checks : poly_checks[k].name = call.name}) = 1

\* the last check of the list has run under a name no other entry has
C28_Witness ==
    /\ call.func = "area_invalid_marine"
    /\ call.name = poly_checks[Len(poly_checks)].name
    /\ {k \in DOMAIN poly_checks : poly_checks[k].name = call.name} = {Len(poly_checks)}

\* C29: in each statistical check, when fewer than two records have a ratio
\* with 0 <= r <= 100 (the sample standard deviation, and so max_ratio, is
\* undefined), no record is flagged, however large its ratio and its
\* absolute area difference are.
C29_UndefinedMaxFlagsNothing ==
    (StatisticalCall /\ Len(InRangeRatios) < 2) =>
        /\ selected = {}
        /\ ret = IF call.return_pid THEN Pids(<<>>) ELSE Bool(FALSE)

\* two records, one with the ratio 100 and one with the ratio 121 and areas
\* 119 apart: one ratio in the range, and nothing flagged
C29_Witness ==
    /\ call.func = "area_invalid_too_large_gis"
    /\ call.return_pid
    /\ Len(wdpa_df) = 2
    /\ Len(InRangeRatios) = 1
    /\ \E i \in Index(wdpa_df) : Ratio(i) = Num(121) /\ DifferenceOver50(i)
    /\ selected = {}
    /\ ret = Pids(<<>>)

\* the marine ratio of record i is undefined: an area is missing, or both
\* areas are 0
MarineRatioUndefined(i) ==
    \/ IsNull(wdpa_df[i]["GIS_AREA"])
    \/ IsNull(wdpa_df[i]["GIS_M_AREA"])
    \/ wdpa_df[i]["GIS_AREA"] = Num(0) /\ wdpa_df[i]["GIS_M_AREA"] = Num(0)

\* C30: in area_invalid_marine a record whose marine ratio is undefined
\* (GIS_AREA or GIS_M_AREA null, or both areas 0) gets no band and is flagged
\* whatever its MARINE is, '0', '1' and '2' included.
C30_UndefinedRatioFlagged ==
    call.func = "area_invalid_marine" =>
        \A i \in Index(wdpa_df) :
            MarineRatioUndefined(i) =>
                /\ IsNull(wdpa_df[i]["marine_GIS_value"])
                /\ i \in selected

\* records with both areas 0 and the MARINE values '0' and '1' are both
\* flagged
C30_Witness ==
    /\ call.func = "area_invalid_marine"
    /\ Len(wdpa_df) = 2
    /\ MarineRatioUndefined(1) /\ wdpa_df[1]["MARINE"] = Str("0")
    /\ MarineRatioUndefined(2) /\ wdpa_df[2]["MARINE"] = Str("1")
    /\ wdpa_df[1]["GIS_AREA"] = Num(0)
    /\ selected = {1, 2}

====
